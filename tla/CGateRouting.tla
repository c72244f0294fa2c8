---------------------------- MODULE CGateRouting ----------------------------
(***************************************************************************)
(* The connections of the gateway, for every number of workers, sockets    *)
(* and messages: routed by hid, their reactors in place, and the retired   *)
(* descriptors of a round within their array.                              *)
(*                                                                         *)
(* CGateProofs has the types of the whole state; this second layer follows *)
(* the hid of a connection from the main thread through NEWCONN, the       *)
(* connection object, PEER_CLOSE and DO_CLOSE, and counts the events that  *)
(* a round may still spend.                                                *)
(***************************************************************************)
EXTENDS CGateProofs, FiniteSetTheorems

(* What the main thread may tell worker w, and worker w the main thread.   *)
ToWorker(w) ==
  {m \in [type : {"NEWCONN", "DO_CLOSE"}, fd : Int, hid : Int] :
     ThrIdx(m.hid) = w /\ (m.type = "NEWCONN" => m.fd # MailFd)}

FromWorker(w) ==
  [type : {"START_OK"}, w : Worker]
    \cup {m \in [type : {"PEER_CLOSE"}, fd : Int, hid : Int] : ThrIdx(m.hid) = w}

(* The connections of container c whose hid names worker w.                *)
Known(c, w) == {v \in Vfd : ThrIdx(c.hid_[v]) = w}

(* The reactors descriptor fd may have when the connections in V are known.*)
KindOf(fd, V) == IF fd = MailFd THEN {Pipe} ELSE V

(* Every reactor of poller p, in its table or pending, is of its kind.     *)
Placed(p, V) ==
  /\ \A fd \in Fd : p.status[fd] = "ACTIVE" => p.reactor[fd] \in KindOf(fd, V)
  /\ \A i \in 1 .. Len(p.pending_new_) :
       p.pending_new_[i].reactor \in KindOf(p.pending_new_[i].fd, V)

(* What the round has retired and what it may still retire fit retired_.   *)
RoundFits(ph, p, ev) ==
  IF ph = "dispatch" THEN Len(p.retired_) + Cardinality(ev) <= MaxFds
  ELSE p.retired_ = <<>>

(* The invariant of worker w: what is in its mailboxes, the reactors of    *)
(* its poller, and the room left in retired_.                              *)
WInv(w) ==
  /\ down[w] \in Box(ToWorker(w)) /\ mail[w] \in Seq(ToWorker(w))
  /\ up[w] \in Box(FromWorker(w))
  /\ Placed(pollers[w], Known(containers[w], w))
  /\ RoundFits(wphase[w], pollers[w], wevents[w])

GInv == \A w \in Worker : WInv(w)

(* With more connections known, more reactors are of their kind.           *)
LEMMA PlacedMono ==
  ASSUME NEW p, NEW V, NEW W, V \subseteq W, Placed(p, V)
  PROVE  Placed(p, W)
BY DEF Placed, KindOf

(* A new poller has no reactor to place (fd_poller.cc:8-25).               *)
LEMMA PlacedEmpty == ASSUME NEW V PROVE Placed(EmptyPoller, V)
BY DEF Placed, EmptyPoller, ResetStatus

(* del_event changes registrations only (epoll.cc:54-82).                  *)
LEMMA PlacedDelEvent ==
  ASSUME NEW p, PollerOK(p), NEW V, Placed(p, V), NEW fd \in Fd
  PROVE  Placed(del_event(p, fd), V) /\ del_event(p, fd).retired_ = p.retired_
BY DEF Placed, del_event, PollerOK, Poller

(* wait_close and close_fd take a reactor away and retire one descriptor   *)
(* (fd_poller.cc:74-92).                                                   *)
LEMMA PlacedClose ==
  ASSUME NEW p, PollerOK(p), NEW V, Placed(p, V), NEW s \in Int
  PROVE  LET q == close_fd(wait_close(p, s), s)
         IN  Placed(q, V) /\ q.retired_ = Append(p.retired_, s)
<1>0. PollerOK(wait_close(p, s))
  BY WaitCloseOK
<1>1. Placed(wait_close(p, s), V) /\ wait_close(p, s).retired_ = p.retired_
  BY DEF Placed, wait_close, del_event, PollerOK, Poller
<1> QED BY <1>0, <1>1 DEF Placed, close_fd, PollerOK, Poller

(* add_fd places a reactor of the right kind, now or pending               *)
(* (fd_poller.cc:46-64).                                                   *)
LEMMA PlacedAddFd ==
  ASSUME NEW p, PollerOK(p), NEW V, Placed(p, V), NEW fd, NEW r \in KindOf(fd, V)
  PROVE  Placed(add_fd(p, fd, r), V) /\ add_fd(p, fd, r).retired_ = p.retired_
<1>0. CASE fd \notin Fd
  BY <1>0 DEF add_fd
<1>1. CASE fd \in Fd /\ p.status[fd] # "EMPTY"
  <2> DEFINE e == [fd |-> fd, reactor |-> r]
             n == <<e>> \o p.pending_new_
  <2>1. add_fd(p, fd, r) = [p EXCEPT !.pending_new_ = n]
    BY <1>1 DEF add_fd, PollerOK, Poller
  <2>2. p.pending_new_ \in Seq([fd : Fd, reactor : Reactor])
    BY DEF PollerOK, Poller
  <2>3. Len(n) = Len(p.pending_new_) + 1 /\ n[1] = e
        /\ \A i \in 2 .. Len(n) : n[i] = p.pending_new_[i - 1] /\ i - 1 \in 1 .. Len(p.pending_new_)
    BY <2>2
  <2>4. \A i \in 1 .. Len(n) : n[i].reactor \in KindOf(n[i].fd, V)
    <3> SUFFICES ASSUME NEW i \in 1 .. Len(n) PROVE n[i].reactor \in KindOf(n[i].fd, V)
      OBVIOUS
    <3>1. CASE i = 1
      BY <3>1, <2>3
    <3>2. CASE i # 1
      <4>1. i \in 2 .. Len(n)
        BY <3>2, <2>3, <2>2
      <4> HIDE DEF n
      <4> QED BY <4>1, <2>3 DEF Placed
    <3> QED BY <3>1, <3>2
  <2> HIDE DEF n
  <2> QED BY <2>1, <2>4 DEF Placed, PollerOK, Poller
<1>2. CASE fd \in Fd /\ p.status[fd] = "EMPTY"
  BY <1>2 DEF Placed, add_fd, add_event, PollerOK, Poller
<1> QED BY <1>0, <1>1, <1>2

(* The sweep activates pending reactors, which are of their kind, and      *)
(* empties retired_ (fd_poller.cc:129-149).                                *)
LEMMA PlacedSweep ==
  ASSUME NEW p, PollerOK(p), NEW V, Placed(p, V), NEW open
  PROVE  Placed(Sweep(p, open), V) /\ Sweep(p, open).retired_ = <<>>
<1> DEFINE q == RetireAll(p)
<1>1. PollerOK(q) /\ Placed(q, V) /\ q.retired_ = <<>>
  BY RetireAllOK DEF Placed, RetireAll, PollerOK, Poller
<1> HIDE DEF q
<1>2. ASSUME NEW fd \in PendingFds(q) PROVE PendingReactor(q, fd) \in KindOf(fd, V)
  <2> DEFINE L == Len(q.pending_new_)
             S == {i \in 1 .. L : q.pending_new_[i].fd = fd}
             Last(i) == /\ q.pending_new_[i].fd = fd
                        /\ \A j \in i + 1 .. L : q.pending_new_[j].fd # fd
  <2>1. L \in Nat
    BY <1>1 DEF PollerOK, Poller
  <2>2. S \in SUBSET (1 .. L) /\ S # {}
    BY <1>2 DEF PendingFds
  <2>3. \E i \in S : \A j \in i + 1 .. L : j \notin S
    <3> HIDE DEF L, S
    <3> QED BY <2>1, <2>2, LastIndex
  <2>4. \E i \in 1 .. L : Last(i)
    BY <2>1, <2>3
  <2> DEFINE k == CHOOSE i \in 1 .. L : Last(i)
  <2>5. k \in 1 .. L /\ Last(k)
    <3> HIDE DEF Last
    <3> QED BY <2>4
  <2>6. PendingReactor(q, fd) = q.pending_new_[k].reactor
    BY DEF PendingReactor
  <2> HIDE DEF k
  <2> QED BY <1>1, <2>5, <2>6 DEF Placed
<1>3. \A fd \in Fd : ApplyPending(q, open).status[fd] =
          IF fd \in PendingFds(q) THEN "ACTIVE" ELSE q.status[fd]
  BY <1>1 DEF ApplyPending, PollerOK, Poller
<1>4. \A fd \in Fd : ApplyPending(q, open).reactor[fd] =
          IF fd \in PendingFds(q) THEN PendingReactor(q, fd) ELSE q.reactor[fd]
  BY <1>1 DEF ApplyPending, PollerOK, Poller
<1>5. ApplyPending(q, open).pending_new_ = q.pending_new_
      /\ ApplyPending(q, open).retired_ = q.retired_
  BY <1>1 DEF ApplyPending, PollerOK, Poller
<1>6. Sweep(p, open) = ApplyPending(q, open)
  BY DEF Sweep, q
<1> QED BY <1>1, <1>2, <1>3, <1>4, <1>5, <1>6 DEF Placed

-----------------------------------------------------------------------------
(* A step that touches nothing of the other workers needs to restore the   *)
(* invariant of one worker only.                                           *)
LEMMA OneWorker ==
  ASSUME GInv, NEW w \in Worker, WInv(w)',
         \A x \in Worker \ {w} :
           /\ down'[x] = down[x] /\ mail'[x] = mail[x] /\ up'[x] = up[x]
           /\ pollers'[x] = pollers[x] /\ containers'[x] = containers[x]
           /\ wphase'[x] = wphase[x] /\ wevents'[x] = wevents[x]
  PROVE  GInv'
<1>1. ASSUME NEW x \in Worker, x # w  PROVE WInv(x)'
  BY <1>1 DEF WInv, GInv
<1> QED BY <1>1 DEF GInv

(* Nothing of any worker changes.                                          *)
LEMMA NoWorker ==
  ASSUME GInv, UNCHANGED <<up, down, wphase, wevents, mail, pollers, containers>>
  PROVE  GInv'
BY DEF GInv, WInv

(* The initial state satisfies the invariant of every worker.              *)
LEMMA InitGInv == GateInit => GInv
<1> SUFFICES ASSUME GateInit, NEW w \in Worker PROVE WInv(w)
  BY DEF GInv
<1>1. down[w] \in Box(ToWorker(w)) /\ mail[w] \in Seq(ToWorker(w)) /\ up[w] \in Box(FromWorker(w))
  BY DEF GateInit, Box, EmptyMailbox
<1>2. Placed(pollers[w], Known(containers[w], w))
  BY PlacedEmpty DEF GateInit
<1>3. RoundFits(wphase[w], pollers[w], wevents[w])
  BY DEF GateInit, RoundFits, EmptyPoller
<1> QED BY <1>1, <1>2, <1>3 DEF WInv

(* The hid of a dispatched socket names the worker it is sent to: the      *)
(* counter is below HidSpace (client_mgr.cc:191-206).                      *)
LEMMA HidNamesFirst ==
  ASSUME NEW h \in 0 .. HidSpace - 1
  PROVE  ThrIdx(h) = 0
<1>1. HidSpace \in Nat /\ HidSpace > 0
  BY GateAssumption
<1>2. h \div HidSpace = 0
  BY <1>1
<1> QED BY <1>2 DEF ThrIdx

(* start_worker starts a thread that is not in a round.                    *)
LEMMA StartWorkerGInv ==
  ASSUME IInv, GInv, NEW ok \in BOOLEAN, StartWorker(ok)
  PROVE  GInv'
<1>1. /\ nstarted \in Worker /\ wphase[nstarted] = "none"
      /\ wphase \in [Worker -> {"none", "boot", "poll", "dispatch"}]
  <2>1. nstarted \in 0 .. WorkerNum /\ nstarted < WorkerNum /\ WorkerNum \in Nat
    BY GateAssumption DEF IInv, MainOK, StartWorker
  <2>2. nstarted \in Worker
    BY <2>1 DEF Worker
  <2> QED BY <2>1, <2>2 DEF StartOrder, IInv, StateOK
<1>2. PICK k \in Worker : k = nstarted
  BY <1>1
<1>3. WInv(k) /\ RoundFits("none", pollers[k], wevents[k])
  BY <1>1, <1>2 DEF GInv, WInv
<1>4. /\ wphase'[k] \in {"boot", "none"} /\ \A x \in Worker \ {k} : wphase'[x] = wphase[x]
      /\ UNCHANGED <<up, down, wevents, mail, pollers, containers>>
  BY <1>1, <1>2 DEF StartWorker
<1>5. RoundFits(wphase'[k], pollers'[k], wevents'[k])
  BY <1>3, <1>4 DEF RoundFits
<1>6. WInv(k)'
  BY <1>3, <1>4, <1>5 DEF WInv
<1> QED BY <1>4, <1>6, OneWorker

(* Reading a worker's mailbox.                                             *)
LEMMA MainReadGInv ==
  ASSUME IInv, GInv, NEW w \in Worker, NEW n \in 1 .. Len(up[w].chan), MainRead(w, n)
  PROVE  GInv'
<1>1. /\ up' = [up EXCEPT ![w] = read(up[w], n)] /\ up \in [Worker -> Box(Told(Loop))]
      /\ UNCHANGED <<down, wphase, wevents, mail, pollers, containers>>
  BY DEF MainRead, workerVars, IInv, UpOK
<1>2. WInv(w)
  BY DEF GInv
<1>3. read(up[w], n) \in Box(FromWorker(w))
  BY <1>2, BoxOps DEF WInv
<1>4. up'[w] \in Box(FromWorker(w)) /\ \A x \in Worker \ {w} : up'[x] = up[x]
  BY <1>1, <1>3
<1>5. WInv(w)'
  BY <1>1, <1>2, <1>4 DEF WInv
<1> QED BY <1>1, <1>4, <1>5, OneWorker

(* A message that worker w may be told is written to its mailbox.          *)
LEMMA TellWorker ==
  ASSUME IInv, GInv, NEW w \in Worker, NEW m \in ToWorker(w),
         down' = [down EXCEPT ![w] = write(@, m)],
         UNCHANGED <<up, wphase, wevents, mail, pollers, containers>>
  PROVE  GInv'
<1>1. WInv(w) /\ down \in [Worker -> Box(GateMessage)]
  BY DEF GInv, IInv, DownOK
<1>2. write(down[w], m) \in Box(ToWorker(w))
  BY <1>1, BoxOps DEF WInv
<1>3. down'[w] \in Box(ToWorker(w)) /\ \A x \in Worker \ {w} : down'[x] = down[x]
  BY <1>1, <1>2
<1>4. WInv(w)'
  BY <1>1, <1>3 DEF WInv
<1> QED BY <1>3, <1>4, OneWorker

(* DO_CLOSE goes to the worker its hid names (client_mgr.cc:237-252).      *)
LEMMA ConnNotifyGInv ==
  ASSUME IInv, GInv, ConnNotify
  PROVE  GInv'
<1>1. inbox \in Seq(Told(Loop)) /\ inbox # <<>>
  BY DEF IInv, UpOK, ConnNotify
<1>2. Head(inbox) \in Told(Loop)
  BY <1>1, HeadTail
<1>3. PICK fd \in Int, hid \in Int : fd = Head(inbox).fd /\ hid = Head(inbox).hid
  BY <1>2 DEF Told, ConnNotify
<1> DEFINE m == [type |-> "DO_CLOSE", fd |-> fd, hid |-> hid]
<1>4. /\ ThrIdx(hid) \in Worker /\ down' = [down EXCEPT ![ThrIdx(hid)] = write(@, m)]
      /\ UNCHANGED <<up, wphase, wevents, mail, pollers, containers>>
  BY <1>3 DEF ConnNotify, workerVars
<1>5. m \in ToWorker(ThrIdx(hid))
  BY DEF ToWorker
<1> HIDE DEF m
<1> QED BY <1>4, <1>5, TellWorker

(* NEWCONN goes to worker 0, and its hid is below HidSpace                 *)
(* (client_mgr.cc:180-215).                                                *)
LEMMA AcceptGInv ==
  ASSUME IInv, GInv, NEW s \in Sockets, Accept(s)
  PROVE  GInv'
<1>1. HidSpace \in Nat /\ HidSpace > 0 /\ s \in Int /\ s # MailFd /\ WorkerNum \in Nat /\ WorkerNum > 0
  BY GateAssumption
<1>2. SelectWorker = 0 /\ 0 \in Worker
  BY <1>1 DEF SelectWorker, active_conn, Worker
<1>3. PICK h \in 0 .. HidSpace - 1 : h = hid_'
  BY <1>1 DEF Accept, NextHid, IInv, MainOK
<1> DEFINE m == [type |-> "NEWCONN", fd |-> s, hid |-> h]
<1>4. 0 * HidSpace + h = h
  BY <1>1
<1>5. down' = [down EXCEPT ![0] = write(@, m)] /\ UNCHANGED <<up, wphase, wevents, mail, pollers, containers>>
  BY <1>2, <1>3, <1>4 DEF Accept, workerVars
<1>6. m \in ToWorker(0)
  BY <1>1, <1>3, HidNamesFirst DEF ToWorker
<1> HIDE DEF m
<1> QED BY <1>2, <1>5, <1>6, TellWorker

(* The worker registers its mailbox with the pipe as its reactor.          *)
LEMMA BootGInv ==
  ASSUME IInv, GInv, NEW w \in Worker, Boot(w)
  PROVE  GInv'
<1> DEFINE p == add_fd(pollers[w], MailFd, Pipe)
<1>1. WInv(w) /\ PollerOK(pollers[w]) /\ pollers \in [Worker -> Poller]
      /\ wphase \in [Worker -> {"none", "boot", "poll", "dispatch"}]
      /\ up \in [Worker -> Box(Told(Loop))]
  BY DEF GInv, IInv, WorkersOK, StateOK, UpOK
<1>2. Pipe \in KindOf(MailFd, Known(containers[w], w))
  BY DEF KindOf
<1>3. Placed(p, Known(containers[w], w)) /\ p.retired_ = pollers[w].retired_
  BY <1>1, <1>2, PlacedAddFd DEF WInv
<1>4. Hello(w) \in FromWorker(w)
  BY DEF Hello, FromWorker
<1>5. write(up[w], Hello(w)) \in Box(FromWorker(w))
  BY <1>1, <1>4, BoxOps DEF WInv
<1> HIDE DEF p
<1>6. /\ wphase[w] = "boot" /\ wphase'[w] = "poll" /\ pollers'[w] = p
      /\ up'[w] = write(up[w], Hello(w))
      /\ UNCHANGED <<down, wevents, mail, containers>>
      /\ \A x \in Worker \ {w} : wphase'[x] = wphase[x] /\ pollers'[x] = pollers[x] /\ up'[x] = up[x]
  BY <1>1 DEF Boot, p
<1>7. RoundFits(wphase'[w], pollers'[w], wevents'[w])
  BY <1>1, <1>3, <1>6 DEF WInv, RoundFits
<1>8. WInv(w)'
  BY <1>1, <1>3, <1>5, <1>6, <1>7 DEF WInv
<1> QED BY <1>6, <1>8, OneWorker

-----------------------------------------------------------------------------
(* A round dispatches at most MaxFds events, one fewer after each of them. *)
LEMMA EventsCount ==
  ASSUME NEW ev \in SUBSET Fd
  PROVE  /\ Cardinality(ev) \in Nat /\ Cardinality(ev) <= MaxFds
         /\ \A fd \in ev : Cardinality(ev \ {fd}) = Cardinality(ev) - 1
<1>1. IsFiniteSet(Fd) /\ Cardinality(Fd) = MaxFds
  BY FS_Interval, MaxFdsAssumption DEF Fd
<1>2. IsFiniteSet(ev) /\ Cardinality(ev) <= MaxFds
  BY <1>1, FS_Subset
<1> QED BY <1>2, FS_RemoveElement, FS_CardinalityType

(* epoll_wait returns at most MaxFds events to a poller that has retired   *)
(* nothing (epoll.cc:84-97).                                               *)
LEMMA PollGInv ==
  ASSUME IInv, GInv, NEW w \in Worker, Poll(w)
  PROVE  GInv'
<1>1. WInv(w) /\ StateOK /\ pollers[w].retired_ = <<>>
  BY DEF GInv, IInv, Poll, WInv, RoundFits
<1>2. /\ wphase'[w] = "dispatch" /\ wevents'[w] = Ready(w) /\ Ready(w) \in SUBSET Fd
      /\ UNCHANGED <<up, down, mail, pollers, containers>>
      /\ \A x \in Worker \ {w} : wphase'[x] = wphase[x] /\ wevents'[x] = wevents[x]
  BY <1>1 DEF Poll, StateOK, Ready
<1>3. Cardinality(Ready(w)) \in Nat /\ Cardinality(Ready(w)) <= MaxFds
  BY <1>2, EventsCount
<1>4. RoundFits(wphase'[w], pollers'[w], wevents'[w])
  BY <1>1, <1>2, <1>3 DEF RoundFits
<1>5. WInv(w)'
  BY <1>1, <1>2, <1>4 DEF WInv
<1> QED BY <1>2, <1>5, OneWorker

(* The end of a round empties retired_ and activates what is pending       *)
(* (fd_poller.cc:129-149).                                                 *)
LEMMA EndRoundGInv ==
  ASSUME IInv, GInv, NEW w \in Worker, EndOfRound(w)
  PROVE  GInv'
<1> DEFINE p == Sweep(pollers[w], Open)
<1>1. WInv(w) /\ StateOK /\ PollerOK(pollers[w]) /\ pollers \in [Worker -> Poller]
  BY DEF GInv, IInv, WorkersOK
<1>2. Placed(p, Known(containers[w], w)) /\ p.retired_ = <<>>
  BY <1>1, PlacedSweep DEF WInv
<1> HIDE DEF p
<1>3. /\ wphase'[w] = "poll" /\ pollers'[w] = p /\ UNCHANGED <<up, down, mail, wevents, containers>>
      /\ \A x \in Worker \ {w} : wphase'[x] = wphase[x] /\ pollers'[x] = pollers[x]
  BY <1>1 DEF EndOfRound, StateOK, p
<1>4. RoundFits(wphase'[w], pollers'[w], wevents'[w])
  BY <1>2, <1>3 DEF RoundFits
<1>5. WInv(w)'
  BY <1>1, <1>2, <1>3, <1>4 DEF WInv
<1> QED BY <1>3, <1>5, OneWorker

(* An event is taken from the round: one descriptor may be retired for it. *)
LEMMA EventTaken ==
  ASSUME IInv, GInv, NEW w \in Worker, NEW fd \in Fd, At(w, fd)
  PROVE  /\ wphase[w] = "dispatch" /\ wevents'[w] = wevents[w] \ {fd}
         /\ \A x \in Worker \ {w} : wevents'[x] = wevents[x]
         /\ Len(pollers[w].retired_) \in Nat
         /\ Cardinality(wevents'[w]) \in Nat
         /\ Len(pollers[w].retired_) + 1 + Cardinality(wevents'[w]) <= MaxFds
<1>1. WInv(w) /\ StateOK /\ PollerOK(pollers[w])
  BY DEF GInv, IInv, WorkersOK
<1>2. wphase[w] = "dispatch" /\ fd \in wevents[w] /\ wevents[w] \in SUBSET Fd
      /\ wevents'[w] = wevents[w] \ {fd} /\ \A x \in Worker \ {w} : wevents'[x] = wevents[x]
  BY <1>1 DEF At, NextEvent, StateOK
<1>3. Len(pollers[w].retired_) \in Nat
  BY <1>1 DEF PollerOK, Poller
<1>4. Len(pollers[w].retired_) + Cardinality(wevents[w]) <= MaxFds
  BY <1>1, <1>2 DEF WInv, RoundFits
<1>5. Cardinality(wevents[w]) \in Nat /\ Cardinality(wevents'[w]) = Cardinality(wevents[w]) - 1
      /\ Cardinality(wevents'[w]) \in Nat
  BY <1>2, EventsCount
<1> QED BY <1>2, <1>3, <1>4, <1>5, MaxFdsAssumption

(* A stale event is dropped.                                               *)
LEMMA StaleGInv ==
  ASSUME IInv, GInv, NEW w \in Worker, NEW fd \in Fd, Stale(w, fd)
  PROVE  GInv'
<1> DEFINE p == del_event(pollers[w], fd)
<1>1. WInv(w) /\ PollerOK(pollers[w]) /\ pollers \in [Worker -> Poller]
  BY DEF GInv, IInv, WorkersOK
<1>2. Placed(p, Known(containers[w], w)) /\ p.retired_ = pollers[w].retired_
  BY <1>1, PlacedDelEvent DEF WInv
<1> HIDE DEF p
<1>3. At(w, fd) /\ pollers'[w] = p /\ UNCHANGED <<up, down, wphase, mail, containers>>
      /\ \A x \in Worker \ {w} : pollers'[x] = pollers[x]
  BY <1>1 DEF Stale, p
<1>4. RoundFits(wphase'[w], pollers'[w], wevents'[w])
  BY <1>2, <1>3, EventTaken, MaxFdsAssumption DEF RoundFits
<1>5. WInv(w)'
  BY <1>1, <1>2, <1>3, <1>4 DEF WInv
<1> QED BY <1>3, <1>5, EventTaken, OneWorker

(* The worker reads its mailbox.                                           *)
LEMMA ReadMailGInv ==
  ASSUME IInv, GInv, NEW w \in Worker, NEW n \in 1 .. Len(down[w].chan), ReadMail(w, n)
  PROVE  GInv'
<1>1. WInv(w) /\ down \in [Worker -> Box(GateMessage)] /\ mail \in [Worker -> Seq(GateMessage)]
  BY DEF GInv, IInv, DownOK
<1>2. read(down[w], n) \in Box(ToWorker(w)) /\ SubSeq(down[w].chan, 1, n) \in Seq(ToWorker(w))
  BY <1>1, BoxOps DEF WInv
<1>3. /\ At(w, MailFd) /\ mail'[w] = SubSeq(down[w].chan, 1, n) /\ down'[w] = read(down[w], n)
      /\ UNCHANGED <<up, wphase, pollers, containers>>
      /\ \A x \in Worker \ {w} : mail'[x] = mail[x] /\ down'[x] = down[x]
  BY <1>1 DEF ReadMail
<1>4. MailFd \in Fd
  BY MaxFdsAssumption DEF MailFd, Fd
<1>5. RoundFits(wphase'[w], pollers'[w], wevents'[w])
  BY <1>3, <1>4, EventTaken, MaxFdsAssumption DEF RoundFits
<1>6. WInv(w)'
  BY <1>1, <1>2, <1>3, <1>5 DEF WInv
<1> QED BY <1>3, <1>4, <1>6, EventTaken, OneWorker

(* new_connect gives the socket a connection that carries the hid of the   *)
(* message (connect_worker.cc:78-101).                                     *)
LEMMA HandleMailGInv ==
  ASSUME IInv, GInv, NEW w \in Worker, HandleMail(w)
  PROVE  GInv'
<1>1. /\ WInv(w) /\ PollerOK(pollers[w]) /\ ContainerOK(containers[w]) /\ mail[w] # <<>>
      /\ mail \in [Worker -> Seq(GateMessage)]
      /\ pollers \in [Worker -> Poller] /\ containers \in [Worker -> Container]
  BY DEF GInv, IInv, WorkersOK, DownOK, HandleMail
<1>2. Head(mail[w]) \in ToWorker(w) /\ Tail(mail[w]) \in Seq(ToWorker(w))
  BY <1>1, HeadTail DEF WInv
<1>3. PICK m \in ToWorker(w) : m = Head(mail[w])
  BY <1>2
<1>4. /\ mail'[w] = Tail(mail[w]) /\ UNCHANGED <<up, down, wphase, wevents>>
      /\ \A x \in Worker \ {w} : mail'[x] = mail[x]
  BY <1>1 DEF HandleMail
<1> DEFINE v == AllocVfd(containers[w])
<1>5. CASE m.type = "NEWCONN" /\ v >= 0
  <2> DEFINE c == NewConn(containers[w], v, m)
             p == add_fd(pollers[w], m.fd, v)
  <2>1. /\ pollers'[w] = p /\ containers'[w] = c
        /\ \A x \in Worker \ {w} : pollers'[x] = pollers[x] /\ containers'[x] = containers[x]
    BY <1>1, <1>3, <1>5 DEF HandleMail
  <2>2. /\ m \in [type : {"PEER_CLOSE", "NEWCONN", "DO_CLOSE"}, fd : Int, hid : Int]
        /\ m.fd # MailFd /\ ThrIdx(m.hid) = w
    BY <1>5 DEF ToWorker
  <2>3. v \in Vfd /\ ContainerOK(c)
    BY <1>1, <1>5, <2>2, NewConnOK
  <2> HIDE DEF v
  <2>4. \A x \in Vfd : c.hid_[x] = IF x = v THEN m.hid ELSE containers[w].hid_[x]
    <3> DEFINE a == alloc_connect(containers[w], v, m.fd)
    <3>1. containers[w] \in Container
      BY <1>1
    <3>2. a.hid_ = containers[w].hid_ /\ containers[w].hid_ \in [Vfd -> Int]
      BY <3>1 DEF alloc_connect, Container
    <3>3. c.hid_ = [a.hid_ EXCEPT ![v] = m.hid]
      BY <3>1 DEF NewConn, alloc_connect, Container
    <3> HIDE DEF a, c
    <3> QED BY <2>3, <3>2, <3>3
  <2>5. Known(containers[w], w) \subseteq Known(c, w) /\ v \in KindOf(m.fd, Known(c, w))
    BY <2>2, <2>3, <2>4 DEF Known, KindOf
  <2> HIDE DEF c
  <2>6. Placed(pollers[w], Known(c, w))
    BY <1>1, <2>5, PlacedMono DEF WInv
  <2>7. Placed(p, Known(c, w)) /\ p.retired_ = pollers[w].retired_
    BY <1>1, <2>5, <2>6, PlacedAddFd
  <2> HIDE DEF p
  <2>8. RoundFits(wphase'[w], pollers'[w], wevents'[w])
    BY <1>1, <1>4, <2>1, <2>7 DEF WInv, RoundFits
  <2>9. WInv(w)'
    BY <1>1, <1>2, <1>4, <2>1, <2>7, <2>8 DEF WInv
  <2> QED BY <1>4, <2>1, <2>9, OneWorker
<1>6. CASE ~(m.type = "NEWCONN" /\ v >= 0)
  <2>1. UNCHANGED <<pollers, containers>>
    BY <1>3, <1>6 DEF HandleMail
  <2>2. WInv(w)'
    BY <1>1, <1>2, <1>4, <2>1 DEF WInv
  <2> QED BY <1>4, <2>1, <2>2, OneWorker
<1> QED BY <1>5, <1>6

(* on_read without an error.                                               *)
LEMMA ReadDataGInv ==
  ASSUME IInv, GInv, NEW w \in Worker, NEW fd \in Fd, NEW v \in Vfd, ReadData(w, fd, v)
  PROVE  GInv'
<1>1. WInv(w) /\ At(w, fd) /\ UNCHANGED <<up, down, wphase, mail, pollers, containers>>
  BY DEF GInv, ReadData
<1>2. RoundFits(wphase'[w], pollers'[w], wevents'[w])
  BY <1>1, EventTaken, MaxFdsAssumption DEF RoundFits
<1>3. WInv(w)'
  BY <1>1, <1>2 DEF WInv
<1> QED BY <1>1, <1>3, EventTaken, OneWorker

(* on_read after an error: the event pays for the descriptor it retires,   *)
(* and the notification carries the hid of a known connection              *)
(* (connect_worker.cc:49-75,104-120).                                      *)
LEMMA ReadErrorGInv ==
  ASSUME IInv, GInv, NEW w \in Worker, NEW fd \in Fd, NEW v \in Vfd, ReadError(w, fd, v)
  PROVE  GInv'
<1> DEFINE c == containers[w]
           s == c.fd_[v]
           m == [type |-> "PEER_CLOSE", fd |-> s, hid |-> c.hid_[v]]
           p == close_fd(wait_close(pollers[w], s), s)
           d == free_connect(c, v)
<1>1. /\ WInv(w) /\ PollerOK(pollers[w]) /\ ContainerOK(c)
      /\ pollers \in [Worker -> Poller] /\ containers \in [Worker -> Container]
      /\ up \in [Worker -> Box(Told(Loop))]
  BY DEF GInv, IInv, WorkersOK, UpOK
<1>2. s \in Int /\ c.hid_[v] \in Int /\ c.hid_ \in [Vfd -> Int]
  BY <1>1 DEF ContainerOK, Container
<1>3. /\ At(w, fd) /\ ReactorIs(w, fd, v) /\ pollers'[w] = p /\ containers'[w] = d
      /\ up'[w] = write(up[w], m) /\ UNCHANGED <<down, wphase, mail>>
      /\ \A x \in Worker \ {w} :
           pollers'[x] = pollers[x] /\ containers'[x] = containers[x] /\ up'[x] = up[x]
  BY <1>1 DEF ReadError
<1>4. v \in Known(c, w)
  <2>1. v \in KindOf(fd, Known(c, w))
    BY <1>1, <1>3 DEF WInv, Placed, ReactorIs
  <2> QED BY <2>1, GateAssumption DEF KindOf
<1>5. m \in FromWorker(w)
  BY <1>2, <1>4 DEF Known, FromWorker
<1>6. Known(d, w) = Known(c, w)
  BY <1>1 DEF Known, free_connect, ContainerOK, Container
<1> HIDE DEF c, s, m, d
<1>7. Placed(p, Known(c, w)) /\ p.retired_ = Append(pollers[w].retired_, s)
  BY <1>1, <1>2, PlacedClose DEF WInv, c
<1>8. Len(p.retired_) = Len(pollers[w].retired_) + 1
  <2>1. pollers[w].retired_ \in Seq(Int)
    BY <1>1 DEF PollerOK, Poller
  <2> QED BY <1>2, <1>7, <2>1
<1> HIDE DEF p
<1>9. write(up[w], m) \in Box(FromWorker(w))
  BY <1>1, <1>5, BoxOps DEF WInv
<1>10. RoundFits(wphase'[w], pollers'[w], wevents'[w])
  BY <1>3, <1>8, EventTaken, MaxFdsAssumption DEF RoundFits
<1>11. WInv(w)'
  BY <1>1, <1>3, <1>6, <1>7, <1>9, <1>10 DEF WInv
<1> QED BY <1>3, <1>11, EventTaken, OneWorker

(* Every step preserves the invariant of the workers.                      *)
LEMMA NextGInv == IInv /\ GInv /\ [GateNext]_gateVars => GInv'
<1> SUFFICES ASSUME IInv, GInv, [GateNext]_gateVars PROVE GInv'
  OBVIOUS
<1>1. CASE StartStep
  BY <1>1, StartWorkerGInv DEF StartStep
<1>2. CASE MainHandle
  <2>1. CASE StartOk
    BY <2>1, NoWorker DEF StartOk, workerVars
  <2> QED BY <1>2, <2>1, ConnNotifyGInv DEF MainHandle
<1>3. ASSUME NEW w \in Worker, MainMail(w) \/ Boot(w) \/ WorkerStep(w)  PROVE GInv'
  <2>1. CASE MainMail(w) \/ Boot(w)
    BY <2>1, MainReadGInv, BootGInv DEF MainMail
  <2>2. CASE DispatchStep(w)
    BY <2>2, ReadMailGInv, StaleGInv, ReadDataGInv, ReadErrorGInv DEF DispatchStep
  <2>3. CASE Poll(w) \/ HandleMail(w) \/ EndOfRound(w)
    BY <2>3, PollGInv, HandleMailGInv, EndRoundGInv
  <2> QED BY <1>3, <2>1, <2>2, <2>3 DEF WorkerStep
<1>4. ASSUME NEW s \in Sockets, Accept(s) \/ ClientStep(s)  PROVE GInv'
  <2>1. CASE ClientStep(s)
    BY <2>1, NoWorker DEF ClientStep, Connecting, Sending, Closing, Resetting, Client, workerVars
  <2> QED BY <1>4, <2>1, AcceptGInv
<1>5. CASE UNCHANGED gateVars
  BY <1>5, NoWorker DEF gateVars, workerVars
<1> QED BY <1>1, <1>2, <1>3, <1>4, <1>5 DEF GateNext

(* The invariant of the workers holds in every reachable state.            *)
LEMMA GInvAlways == GateSpec => []GInv
BY InitGInv, NextGInv, IInvAlways, PTL DEF GateSpec

(* Every message about a connection, resent ones included, is in the       *)
(* mailbox of the worker its hid names, for every number of workers,       *)
(* sockets and connections (client_mgr.cc:180-252,                         *)
(* connect_worker.cc:49-101).                                              *)
THEOREM RoutedByHidSafe == GateSpec => []RoutedByHid
<1>1. GInv => RoutedByHid
  <2> SUFFICES ASSUME GInv, NEW w \in Worker
               PROVE  /\ \A m \in Elements(down[w].log) : ThrIdx(m.hid) = w
                      /\ \A m \in Elements(up[w].log) : m.type = "PEER_CLOSE" => ThrIdx(m.hid) = w
    BY DEF RoutedByHid
  <2>1. down[w].log \in Seq(ToWorker(w)) /\ up[w].log \in Seq(FromWorker(w))
    BY DEF GInv, WInv, Box
  <2>2. \A m \in Elements(down[w].log) : m \in ToWorker(w)
    BY <2>1 DEF Elements
  <2>3. \A m \in Elements(up[w].log) : m \in FromWorker(w)
    BY <2>1 DEF Elements
  <2> QED BY <2>2, <2>3 DEF ToWorker, FromWorker
<1> QED BY <1>1, GInvAlways, PTL

(* A round never retires more descriptors than retired_ holds, whatever    *)
(* the size of the poller: every descriptor it retires is paid for by an   *)
(* event of the round (fd_poller.cc:87-92, epoll.cc:84-112).               *)
THEOREM RetiredFits == GateSpec => []RetiredInBounds
<1>1. IInv /\ GInv => RetiredInBounds
  <2> SUFFICES ASSUME IInv, GInv, NEW w \in Worker PROVE Len(pollers[w].retired_) <= MaxFds
    BY DEF RetiredInBounds
  <2>1. RoundFits(wphase[w], pollers[w], wevents[w]) /\ wevents[w] \in SUBSET Fd /\ PollerOK(pollers[w])
    BY DEF IInv, GInv, WInv, StateOK, WorkersOK
  <2>2. Cardinality(wevents[w]) \in Nat
    BY <2>1, EventsCount
  <2>3. Len(pollers[w].retired_) \in Nat
    BY <2>1 DEF PollerOK, Poller
  <2> QED BY <2>1, <2>2, <2>3, MaxFdsAssumption DEF RoundFits
<1> QED BY <1>1, IInvAlways, GInvAlways, PTL

(* An ACTIVE entry of a worker's poller has the pipe as reactor when it is *)
(* the mailbox's and a connection of the worker otherwise (epoll.cc:98-112, *)
(* connect_worker.cc:99).                                                  *)
THEOREM ReactorsPlaced == GateSpec => []ReactorsInPlace
<1>1. GInv => ReactorsInPlace
  BY DEF GInv, WInv, Placed, KindOf, Known, ReactorsInPlace
<1> QED BY <1>1, GInvAlways, PTL
=============================================================================
