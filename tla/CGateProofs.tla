---------------------------- MODULE CGateProofs ----------------------------
(***************************************************************************)
(* The start-up barrier of the gateway, for every number of workers,       *)
(* sockets and messages.  The listener opens on WORKER_START_OK messages;  *)
(* the invariant follows them through the mailboxes: one that names a      *)
(* worker exists only once that worker is in its loop.                     *)
(***************************************************************************)
EXTENDS CGate, PollerLemmas

(* The workers that have registered their mailbox and entered their loop.  *)
Loop == {w \in Worker : wphase[w] \in {"poll", "dispatch"}}

(* The messages that can be on their way while the workers in L loop.      *)
Told(L) ==
  [type : {"START_OK"}, w : L]
    \cup [type : {"PEER_CLOSE", "NEWCONN", "DO_CLOSE"}, fd : Int, hid : Int]

Box(S) == [log : Seq(S), chan : Seq(S)]

ContainerOK(c) == c \in Container /\ c.count_ = c.stack_top_

MainOK ==
  /\ nstarted \in 0 .. WorkerNum
  /\ wstatus \in [Worker -> {"NULL", "START", "ACTIVE"}]
  /\ hid_ \in 0 .. HidSpace - 1
  /\ listening \in BOOLEAN

StateOK ==
  /\ wphase \in [Worker -> {"none", "boot", "poll", "dispatch"}]
  /\ wevents \in [Worker -> SUBSET Fd]
  /\ socket \in [Sockets -> SockState]

UpOK == inbox \in Seq(Told(Loop)) /\ up \in [Worker -> Box(Told(Loop))]

DownOK == down \in [Worker -> Box(GateMessage)] /\ mail \in [Worker -> Seq(GateMessage)]

WorkersOK ==
  /\ pollers \in [Worker -> Poller] /\ \A w \in Worker : PollerOK(pollers[w])
  /\ containers \in [Worker -> Container] /\ \A w \in Worker : ContainerOK(containers[w])

(* A thread that start_worker has not reached is not running; a worker the *)
(* main thread counts as ACTIVE is in its loop.                            *)
StartOrder ==
  /\ \A w \in Worker : w >= nstarted => wphase[w] = "none"
  /\ \A w \in Worker : wstatus[w] = "ACTIVE" => w \in Loop

IInv == MainOK /\ StateOK /\ UpOK /\ DownOK /\ WorkersOK /\ StartOrder /\ ListenBarrier

-----------------------------------------------------------------------------
(* Mailboxes and messages.                                                 *)

(* More looping workers allow more messages.                               *)
LEMMA ToldMono ==
  ASSUME NEW L, NEW M, L \subseteq M
  PROVE  /\ Told(L) \subseteq Told(M)
         /\ Seq(Told(L)) \subseteq Seq(Told(M))
         /\ Box(Told(L)) \subseteq Box(Told(M))
<1>1. Told(L) \subseteq Told(M)
  BY DEF Told
<1>2. Seq(Told(L)) \subseteq Seq(Told(M))
  BY <1>1
<1> QED BY <1>1, <1>2 DEF Box

(* A mailbox of messages of S is one after write and read of messages of   *)
(* S, and so is what was read (ax_tpipe.cc:59-106,146-185).                *)
LEMMA BoxOps ==
  ASSUME NEW S, NEW mb \in Box(S)
  PROVE  /\ \A m \in S : write(mb, m) \in Box(S)
         /\ \A n \in 1 .. Len(mb.chan) :
              read(mb, n) \in Box(S) /\ SubSeq(mb.chan, 1, n) \in Seq(S)
<1>1. ASSUME NEW m \in S  PROVE write(mb, m) \in Box(S)
  <2>1. Append(mb.log, m) \in Seq(S) /\ mb.chan \in Seq(S)
    BY DEF Box
  <2>2. mb.chan \o Append(mb.log, m) \in Seq(S)
    BY <2>1
  <2> QED BY <2>1, <2>2 DEF write, Flushed, Box
<1>2. ASSUME NEW n \in 1 .. Len(mb.chan)
      PROVE  read(mb, n) \in Box(S) /\ SubSeq(mb.chan, 1, n) \in Seq(S)
  <2>1. mb.chan \in Seq(S) /\ Len(mb.chan) \in Nat
    BY DEF Box
  <2>2. SubSeq(mb.chan, 1, n) \in Seq(S) /\ SubSeq(mb.chan, n + 1, Len(mb.chan)) \in Seq(S)
    BY <2>1
  <2> QED BY <2>2 DEF read, Box
<1> QED BY <1>1, <1>2

(* The rest of a non-empty sequence of messages, and its head.             *)
LEMMA HeadTail ==
  ASSUME NEW S, NEW s \in Seq(S), s # <<>>
  PROVE  Head(s) \in S /\ Tail(s) \in Seq(S)
OBVIOUS

-----------------------------------------------------------------------------
(* Connection containers.                                                  *)

(* new_connect on a container with a free object (connect.cc:112-133,      *)
(* connect_worker.cc:78-101).                                              *)
LEMMA NewConnOK ==
  ASSUME NEW c, ContainerOK(c), AllocVfd(c) >= 0,
         NEW m \in [type : {"PEER_CLOSE", "NEWCONN", "DO_CLOSE"}, fd : Int, hid : Int]
  PROVE  AllocVfd(c) \in Vfd /\ ContainerOK(NewConn(c, AllocVfd(c), m))
<1> DEFINE v == AllocVfd(c)
<1>1. c \in Container /\ c.count_ = c.stack_top_ /\ m.fd \in Int /\ m.hid \in Int
  BY DEF ContainerOK
<1>2. c.stack_top_ \in Vfd /\ c.stack_top_ + 1 \in 0 .. ConnCapacity /\ v \in Vfd
  <2>1. ~ContainerFull(c) /\ v = c.free_stack_[c.stack_top_]
    BY DEF AllocVfd, AX_RET_FULL, AX_RET_ERROR
  <2>2. c.stack_top_ \in 0 .. ConnCapacity /\ ~(c.stack_top_ >= ConnCapacity)
    BY <1>1, <2>1 DEF Container, ContainerFull
  <2>3. c.stack_top_ \in Vfd /\ c.stack_top_ + 1 \in 0 .. ConnCapacity
    BY <2>2, ConnCapacityAssumption DEF Vfd
  <2> QED BY <1>1, <2>1, <2>3 DEF Container
<1> HIDE DEF v
<1>3. c.head_ \in Vfd \cup {NoConn} /\ NoConn \notin Vfd
  BY <1>1 DEF Container, NoConn, Vfd
<1>4. NewConn(c, v, m) \in Container
  BY <1>1, <1>2, <1>3 DEF Container, NewConn, alloc_connect, ConnStatus
<1>5. NewConn(c, v, m).count_ = NewConn(c, v, m).stack_top_
  BY <1>1, <1>2 DEF Container, NewConn, alloc_connect
<1> QED BY <1>2, <1>4, <1>5 DEF v, ContainerOK

(* free_connect where its assertion holds (connect.cc:135-151).            *)
LEMMA FreeConnOK ==
  ASSUME NEW c, ContainerOK(c), FreeAllowed(c), NEW v \in Vfd
  PROVE  ContainerOK(free_connect(c, v))
<1>1. c \in Container /\ c.count_ = c.stack_top_ /\ c.stack_top_ \in 0 .. ConnCapacity
  BY DEF ContainerOK, Container
<1>2. c.stack_top_ - 1 \in Vfd /\ c.stack_top_ - 1 \in 0 .. ConnCapacity
  BY <1>1, ConnCapacityAssumption DEF FreeAllowed, Vfd
<1>3. free_connect(c, v) \in Container
  BY <1>1, <1>2 DEF Container, free_connect, PushFree, ConnStatus
<1>4. free_connect(c, v).count_ = free_connect(c, v).stack_top_
  BY <1>1, <1>2 DEF Container, free_connect
<1> QED BY <1>3, <1>4 DEF ContainerOK

-----------------------------------------------------------------------------
(* Message is what every worker in its loop may be told.                   *)
LEMMA ToldMessage == GateMessage = Told(Worker) /\ Loop \subseteq Worker /\ Loop' \subseteq Worker
BY DEF GateMessage, Told, Loop

(* UpOK survives a step that leaves inbox and up alone and takes no worker *)
(* out of its loop.                                                        *)
LEMMA UpKept ==
  ASSUME UpOK, UNCHANGED <<inbox, up>>, Loop \subseteq Loop'
  PROVE  UpOK'
<1>1. Seq(Told(Loop)) \subseteq Seq(Told(Loop')) /\ Box(Told(Loop)) \subseteq Box(Told(Loop'))
  BY ToldMono
<1>2. inbox' \in Seq(Told(Loop'))
  BY <1>1 DEF UpOK
<1>3. up' \in [Worker -> Box(Told(Loop'))]
  BY <1>1 DEF UpOK
<1>4. UpOK' <=> inbox' \in Seq(Told(Loop')) /\ up' \in [Worker -> Box(Told(Loop'))]
  BY DEF UpOK
<1> QED BY <1>2, <1>3, <1>4

(* The initial state, with no thread started, satisfies the invariant.     *)
LEMMA InitIInv == GateInit => IInv
<1> SUFFICES ASSUME GateInit PROVE IInv
  OBVIOUS
<1>1. MainOK
  <2>1. WorkerNum \in Nat /\ HidSpace \in Nat /\ HidSpace > 1
    BY GateAssumption
  <2>2. nstarted \in 0 .. WorkerNum /\ hid_ \in 0 .. HidSpace - 1
    BY <2>1 DEF GateInit
  <2>3. wstatus \in [Worker -> {"NULL", "START", "ACTIVE"}] /\ listening \in BOOLEAN
    BY DEF GateInit
  <2> QED BY <2>2, <2>3 DEF MainOK
<1>2. StateOK
  BY DEF GateInit, StateOK, SockState
<1>3. UpOK
  BY DEF GateInit, UpOK, Box, EmptyMailbox
<1>4. DownOK
  BY DEF GateInit, DownOK, Box, EmptyMailbox
<1>5. WorkersOK
  <2>1. PollerOK(EmptyPoller) /\ EmptyPoller \in Poller
    BY EmptyPollerOK DEF PollerOK
  <2>2. EmptyContainer \in Container
    BY ConnCapacityAssumption
    DEF Container, EmptyContainer, InitStack, Vfd, NoConn, ConnStatus
  <2>3. ContainerOK(EmptyContainer)
    BY <2>2 DEF ContainerOK, EmptyContainer
  <2> QED BY <2>1, <2>2, <2>3 DEF GateInit, WorkersOK
<1>6. StartOrder /\ ListenBarrier
  BY DEF GateInit, StartOrder, ListenBarrier
<1> QED BY <1>1, <1>2, <1>3, <1>4, <1>5, <1>6 DEF IInv

-----------------------------------------------------------------------------
(* The main thread.                                                        *)

(* start_worker (client_mgr.cc:67-89) starts threads that are not running. *)
LEMMA StartWorkerIInv ==
  ASSUME IInv, NEW ok \in BOOLEAN, StartWorker(ok)
  PROVE  IInv'
<1>1. MainOK /\ StateOK /\ UpOK /\ DownOK /\ WorkersOK /\ StartOrder /\ ListenBarrier
  BY DEF IInv
<1>2. nstarted \in Worker /\ wphase[nstarted] = "none"
  <2>1. nstarted \in 0 .. WorkerNum /\ nstarted < WorkerNum /\ WorkerNum \in Nat
    BY <1>1, GateAssumption DEF MainOK, StartWorker
  <2>2. nstarted \in Worker
    BY <2>1 DEF Worker
  <2> QED BY <1>1, <2>1, <2>2 DEF StartOrder
<1>3. Loop' = Loop
  BY <1>1, <1>2 DEF Loop, StateOK, StartWorker
<1>4. MainOK'
  <2>1. nstarted' \in 0 .. WorkerNum
    BY <1>1, GateAssumption DEF MainOK, StartWorker
  <2>2. wstatus' \in [Worker -> {"NULL", "START", "ACTIVE"}]
    BY <1>1, <1>2 DEF MainOK, StartWorker
  <2> QED BY <1>1, <2>1, <2>2 DEF MainOK, StartWorker
<1>5. StateOK'
  BY <1>1, <1>2 DEF StateOK, StartWorker
<1>6. UpOK'
  BY <1>1, <1>3, UpKept DEF StartWorker
<1>7. DownOK' /\ WorkersOK'
  BY <1>1 DEF DownOK, WorkersOK, StartWorker
<1>8. StartOrder'
  <2>1. \A w \in Worker : w >= nstarted + 1 => wphase'[w] = "none"
    <3> SUFFICES ASSUME NEW w \in Worker, w >= nstarted + 1 PROVE wphase'[w] = "none"
      OBVIOUS
    <3>1. w >= nstarted /\ w # nstarted
      BY <1>2 DEF Worker
    <3> QED BY <1>1, <1>2, <3>1 DEF StartOrder, StateOK, StartWorker
  <2>2. \A w \in Worker : wstatus'[w] = "ACTIVE" => wstatus[w] = "ACTIVE"
    BY <1>1, <1>2 DEF MainOK, StartWorker
  <2>3. nstarted' = nstarted + 1
    BY DEF StartWorker
  <2> QED BY <1>1, <1>3, <2>1, <2>2, <2>3 DEF StartOrder
<1>9. ListenBarrier'
  <2>1. listening' = listening
    BY DEF StartWorker
  <2>2. listening => \A w \in Worker : w \in Loop'
    BY <1>1, <1>3 DEF ListenBarrier, Loop
  <2> QED BY <2>1, <2>2 DEF ListenBarrier, Loop
<1> QED BY <1>4, <1>5, <1>6, <1>7, <1>8, <1>9 DEF IInv

(* Reading a worker's mailbox moves messages from up to inbox              *)
(* (ax_tpipe.cc:59-106).                                                   *)
LEMMA MainReadIInv ==
  ASSUME IInv, NEW w \in Worker, NEW n \in 1 .. Len(up[w].chan), MainRead(w, n)
  PROVE  IInv'
<1>1. MainOK /\ StateOK /\ UpOK /\ DownOK /\ WorkersOK /\ StartOrder /\ ListenBarrier
  BY DEF IInv
<1>2. Loop' = Loop
  BY DEF Loop, MainRead, workerVars
<1>3. up[w] \in Box(Told(Loop))
  BY <1>1 DEF UpOK
<1>4. read(up[w], n) \in Box(Told(Loop)) /\ SubSeq(up[w].chan, 1, n) \in Seq(Told(Loop))
  BY <1>3, BoxOps
<1>5. inbox' \in Seq(Told(Loop)) /\ up' \in [Worker -> Box(Told(Loop))]
  BY <1>1, <1>4 DEF MainRead, UpOK
<1>6. UpOK'
  BY <1>2, <1>5 DEF UpOK
<1>7. MainOK' /\ StateOK' /\ DownOK' /\ WorkersOK'
  BY <1>1 DEF MainRead, workerVars, MainOK, StateOK, DownOK, WorkersOK
<1>8. StartOrder' /\ ListenBarrier'
  BY <1>1, <1>2 DEF MainRead, workerVars, StartOrder, ListenBarrier
<1> QED BY <1>6, <1>7, <1>8 DEF IInv

(* WORKER_START_OK names a worker in its loop, so the listener opens only  *)
(* when all of them are (client_mgr.cc:254-271).                           *)
LEMMA StartOkIInv ==
  ASSUME IInv, StartOk
  PROVE  IInv'
<1>1. MainOK /\ StateOK /\ UpOK /\ DownOK /\ WorkersOK /\ StartOrder /\ ListenBarrier
  BY DEF IInv
<1>2. Loop' = Loop
  BY DEF Loop, StartOk, workerVars
<1>3. inbox \in Seq(Told(Loop)) /\ inbox # <<>>
  BY <1>1 DEF UpOK, StartOk
<1>4. Head(inbox) \in Told(Loop) /\ Tail(inbox) \in Seq(Told(Loop))
  BY <1>3, HeadTail
<1>5. Head(inbox).w \in Loop /\ Head(inbox).w \in Worker
  BY <1>4 DEF Told, StartOk, Loop
<1>6. UpOK'
  BY <1>1, <1>2, <1>4 DEF UpOK, StartOk
<1>7. wstatus' = [wstatus EXCEPT ![Head(inbox).w] = "ACTIVE"]
  BY DEF StartOk
<1>8. wstatus' \in [Worker -> {"NULL", "START", "ACTIVE"}]
      /\ \A w \in Worker : wstatus'[w] = "ACTIVE" => w \in Loop
  BY <1>1, <1>5, <1>7 DEF MainOK, StartOrder
<1>9. StartOrder'
  BY <1>1, <1>2, <1>8 DEF StartOk, workerVars, StartOrder
<1>10. listening' \in BOOLEAN /\ ListenBarrier'
  <2>1. AllActive(wstatus') => \A w \in Worker : w \in Loop
    BY <1>8 DEF AllActive
  <2>2. listening => \A w \in Worker : w \in Loop
    BY <1>1 DEF ListenBarrier, Loop
  <2>3. listening' = (listening \/ AllActive(wstatus'))
    BY DEF StartOk
  <2>4. listening' => \A w \in Worker : w \in Loop
    BY <2>1, <2>2, <2>3
  <2>5. wphase' = wphase
    BY DEF StartOk, workerVars
  <2> QED BY <2>3, <2>4, <2>5 DEF ListenBarrier, Loop
<1>11. MainOK'
  BY <1>1, <1>8, <1>10 DEF MainOK, StartOk
<1>12. StateOK' /\ DownOK' /\ WorkersOK'
  BY <1>1 DEF StartOk, workerVars, StateOK, DownOK, WorkersOK
<1> QED BY <1>6, <1>9, <1>10, <1>11, <1>12 DEF IInv

(* DO_CLOSE for a PEER_CLOSE (client_mgr.cc:237-252).                      *)
LEMMA ConnNotifyIInv ==
  ASSUME IInv, ConnNotify
  PROVE  IInv'
<1>1. MainOK /\ StateOK /\ UpOK /\ DownOK /\ WorkersOK /\ StartOrder /\ ListenBarrier
  BY DEF IInv
<1>2. Loop' = Loop
  BY DEF Loop, ConnNotify, workerVars
<1>3. inbox \in Seq(Told(Loop)) /\ inbox # <<>>
  BY <1>1 DEF UpOK, ConnNotify
<1>4. Head(inbox) \in Told(Loop) /\ Tail(inbox) \in Seq(Told(Loop))
  BY <1>3, HeadTail
<1>5. Head(inbox).fd \in Int /\ Head(inbox).hid \in Int
  BY <1>4 DEF Told, ConnNotify
<1>6. UpOK'
  BY <1>1, <1>2, <1>4 DEF UpOK, ConnNotify
<1>7. DownOK'
  <2> DEFINE idx == ThrIdx(Head(inbox).hid)
             m == [type |-> "DO_CLOSE", fd |-> Head(inbox).fd, hid |-> Head(inbox).hid]
  <2>1. idx \in Worker /\ down' = [down EXCEPT ![idx] = write(@, m)] /\ mail' = mail
    BY DEF ConnNotify, workerVars
  <2>2. m \in GateMessage
    BY <1>5 DEF GateMessage
  <2> HIDE DEF idx, m
  <2>3. down[idx] \in Box(GateMessage)
    BY <1>1, <2>1 DEF DownOK
  <2>4. write(down[idx], m) \in Box(GateMessage)
    BY <2>2, <2>3, BoxOps
  <2> QED BY <1>1, <2>1, <2>4 DEF DownOK
<1>8. MainOK' /\ StateOK' /\ WorkersOK'
  BY <1>1 DEF ConnNotify, workerVars, MainOK, StateOK, WorkersOK
<1>9. StartOrder' /\ ListenBarrier'
  BY <1>1, <1>2 DEF ConnNotify, workerVars, StartOrder, ListenBarrier
<1> QED BY <1>6, <1>7, <1>8, <1>9 DEF IInv

(* A socket is accepted and dispatched (client_mgr.cc:154-215); the hid    *)
(* counter stays inside its bits.                                          *)
LEMMA AcceptIInv ==
  ASSUME IInv, NEW s \in Sockets, Accept(s)
  PROVE  IInv'
<1>1. MainOK /\ StateOK /\ UpOK /\ DownOK /\ WorkersOK /\ StartOrder /\ ListenBarrier
  BY DEF IInv
<1>2. Loop' = Loop
  BY DEF Loop, Accept, workerVars
<1>3. HidSpace \in Nat /\ HidSpace > 0 /\ s \in Int /\ WorkerNum \in Nat /\ WorkerNum > 0
  BY GateAssumption
<1>4. hid_' \in 0 .. HidSpace - 1
  BY <1>1, <1>3 DEF Accept, NextHid, MainOK
<1>5. MainOK'
  BY <1>1, <1>4 DEF Accept, MainOK
<1>6. SelectWorker = 0 /\ SelectWorker \in Worker
  BY <1>3 DEF SelectWorker, active_conn, Worker
<1>7. DownOK'
  <2> DEFINE m == [type |-> "NEWCONN", fd |-> s, hid |-> SelectWorker * HidSpace + hid_']
  <2>1. SelectWorker * HidSpace + hid_' \in Int
    BY <1>3, <1>4, <1>6
  <2>2. m \in GateMessage
    BY <1>3, <2>1 DEF GateMessage
  <2>3. down' = [down EXCEPT ![SelectWorker] = write(@, m)] /\ mail' = mail
    BY DEF Accept, workerVars
  <2> HIDE DEF m
  <2>4. down[SelectWorker] \in Box(GateMessage)
    BY <1>1, <1>6 DEF DownOK
  <2>5. write(down[SelectWorker], m) \in Box(GateMessage)
    BY <2>2, <2>4, BoxOps
  <2> QED BY <1>1, <1>6, <2>3, <2>5 DEF DownOK
<1>8. UpOK'
  BY <1>1, <1>2, UpKept DEF Accept
<1>9. StateOK' /\ WorkersOK'
  BY <1>1 DEF Accept, workerVars, StateOK, WorkersOK, SockState
<1>10. StartOrder' /\ ListenBarrier'
  BY <1>1, <1>2 DEF Accept, workerVars, StartOrder, ListenBarrier
<1> QED BY <1>5, <1>7, <1>8, <1>9, <1>10 DEF IInv

-----------------------------------------------------------------------------
(* The worker threads leave the main thread's variables alone and never    *)
(* leave their loop.                                                       *)

(* A step of a worker, for the conjuncts about the main thread.            *)
LEMMA BarrierKept ==
  ASSUME MainOK, StartOrder, ListenBarrier, UNCHANGED mainVars, Loop \subseteq Loop',
         \A w \in Worker : wphase[w] = "none" => wphase'[w] = "none"
  PROVE  MainOK' /\ StartOrder' /\ ListenBarrier'
<1>1. UNCHANGED <<nstarted, wstatus, hid_, listening>>
  BY DEF mainVars
<1>2. MainOK'
  BY <1>1 DEF MainOK
<1>3. StartOrder'
  BY <1>1 DEF StartOrder
<1>4. listening => \A w \in Worker : w \in Loop'
  BY DEF ListenBarrier, Loop
<1>5. ListenBarrier'
  BY <1>1, <1>4 DEF ListenBarrier, Loop
<1> QED BY <1>2, <1>3, <1>5

(* The worker enters its loop and says so in one step of its thread        *)
(* (connect_worker.cc:198-211).                                            *)
LEMMA BootIInv ==
  ASSUME IInv, NEW w \in Worker, Boot(w)
  PROVE  IInv'
<1>1. MainOK /\ StateOK /\ UpOK /\ DownOK /\ WorkersOK /\ StartOrder /\ ListenBarrier
  BY DEF IInv
<1>2. /\ wphase' = [wphase EXCEPT ![w] = "poll"] /\ wphase[w] = "boot"
      /\ UNCHANGED <<mainVars, inbox, down, wevents, mail, containers, socket>>
  BY DEF Boot, mainVars
<1>3. Loop \subseteq Loop' /\ w \in Loop' /\ StateOK'
      /\ \A x \in Worker : wphase[x] = "none" => wphase'[x] = "none"
  BY <1>1, <1>2 DEF Loop, StateOK
<1>4. MainOK' /\ StartOrder' /\ ListenBarrier'
  BY <1>1, <1>2, <1>3, BarrierKept
<1>5. UpOK'
  <2>1. Seq(Told(Loop)) \subseteq Seq(Told(Loop')) /\ Box(Told(Loop)) \subseteq Box(Told(Loop'))
    BY <1>3, ToldMono
  <2>2. inbox' \in Seq(Told(Loop')) /\ up \in [Worker -> Box(Told(Loop'))]
    BY <1>1, <1>2, <2>1 DEF UpOK
  <2>3. Hello(w) \in Told(Loop')
    BY <1>3 DEF Hello, Told
  <2>4. write(up[w], Hello(w)) \in Box(Told(Loop'))
    BY <2>2, <2>3, BoxOps
  <2>5. up' \in [Worker -> Box(Told(Loop'))]
    BY <2>2, <2>4 DEF Boot
  <2> QED BY <2>2, <2>5 DEF UpOK
<1>6. DownOK'
  BY <1>1, <1>2 DEF DownOK
<1>7. WorkersOK'
  <2>1. Pipe \in Reactor
    BY GateAssumption
  <2>2. PollerOK(add_fd(pollers[w], MailFd, Pipe))
    BY <1>1, <2>1, AddFdOK DEF WorkersOK
  <2>3. add_fd(pollers[w], MailFd, Pipe) \in Poller
    BY <2>2 DEF PollerOK
  <2> QED BY <1>1, <1>2, <2>2, <2>3 DEF WorkersOK, Boot
<1> QED BY <1>3, <1>4, <1>5, <1>6, <1>7 DEF IInv

(* A worker's poller and container replaced by sound ones.                 *)
LEMMA WorkersSet ==
  ASSUME WorkersOK, NEW w \in Worker, NEW p, PollerOK(p), NEW c, ContainerOK(c),
         pollers' = [pollers EXCEPT ![w] = p], containers' = [containers EXCEPT ![w] = c]
  PROVE  WorkersOK'
<1>1. p \in Poller /\ c \in Container
  BY DEF PollerOK, ContainerOK
<1>2. pollers' \in [Worker -> Poller] /\ containers' \in [Worker -> Container]
  BY <1>1 DEF WorkersOK
<1>3. \A x \in Worker : PollerOK(pollers'[x]) /\ ContainerOK(containers'[x])
  BY DEF WorkersOK
<1> QED BY <1>2, <1>3 DEF WorkersOK

(* epoll_wait returns, or a round ends: only the phase, the events and the *)
(* poller of the worker change (epoll.cc:84-114, fd_poller.cc:121-152).    *)
LEMMA RoundIInv ==
  ASSUME IInv, NEW w \in Worker, Poll(w) \/ EndOfRound(w)
  PROVE  IInv'
<1>1. MainOK /\ StateOK /\ UpOK /\ DownOK /\ WorkersOK /\ StartOrder /\ ListenBarrier
  BY DEF IInv
<1>2. UNCHANGED <<mainVars, inbox, up, down, mail, containers, socket>>
  BY DEF Poll, EndOfRound, mainVars
<1>3. /\ wphase[w] \in {"poll", "dispatch"}
      /\ \E ph \in {"poll", "dispatch"} : wphase' = [wphase EXCEPT ![w] = ph]
  BY DEF Poll, EndOfRound
<1>4. Loop \subseteq Loop' /\ \A x \in Worker : wphase[x] = "none" => wphase'[x] = "none"
  BY <1>1, <1>3 DEF Loop, StateOK
<1>5. StateOK'
  <2>1. wphase' \in [Worker -> {"none", "boot", "poll", "dispatch"}]
    BY <1>1, <1>3 DEF StateOK
  <2>2. wevents' \in [Worker -> SUBSET Fd]
    BY <1>1 DEF StateOK, Poll, EndOfRound, Ready
  <2> QED BY <1>1, <1>2, <2>1, <2>2 DEF StateOK
<1>6. MainOK' /\ StartOrder' /\ ListenBarrier'
  BY <1>1, <1>2, <1>4, BarrierKept
<1>7. UpOK' /\ DownOK'
  BY <1>1, <1>2, <1>4, UpKept DEF DownOK
<1>8. WorkersOK'
  <2>1. CASE Poll(w)
    BY <1>1, <2>1 DEF WorkersOK, Poll
  <2>2. CASE EndOfRound(w)
    <3>1. PollerOK(Sweep(pollers[w], Open)) /\ ContainerOK(containers[w])
      BY <1>1, SweepOK DEF WorkersOK
    <3>2. /\ pollers' = [pollers EXCEPT ![w] = Sweep(pollers[w], Open)]
          /\ containers' = [containers EXCEPT ![w] = containers[w]]
      BY <1>1, <2>2 DEF EndOfRound, WorkersOK
    <3> QED BY <1>1, <3>1, <3>2, WorkersSet
  <2> QED BY <2>1, <2>2
<1> QED BY <1>5, <1>6, <1>7, <1>8 DEF IInv

(* The handlers that write no notification: a stale event, the mailbox,    *)
(* one of its messages, a socket without error (epoll.cc:98-112,           *)
(* connect_worker.cc:78-173).                                              *)
LEMMA QuietIInv ==
  ASSUME IInv, UNCHANGED <<mainVars, up, wphase>>, StateOK', DownOK', WorkersOK'
  PROVE  IInv'
<1>1. Loop' = Loop /\ UNCHANGED <<inbox, up>>
  BY DEF Loop, mainVars
<1>2. MainOK' /\ StartOrder' /\ ListenBarrier'
  BY <1>1, BarrierKept DEF IInv
<1>3. UpOK'
  BY <1>1, UpKept DEF IInv
<1> QED BY <1>2, <1>3 DEF IInv

(* An event of a descriptor that is not ACTIVE any more                    *)
(* (epoll.cc:102-105).                                                     *)
LEMMA StaleIInv ==
  ASSUME IInv, NEW w \in Worker, NEW fd \in Fd, Stale(w, fd)
  PROVE  IInv'
<1>1. StateOK /\ DownOK /\ WorkersOK
  BY DEF IInv
<1>2. StateOK' /\ DownOK'
  BY <1>1 DEF StateOK, DownOK, Stale, At
<1>3. WorkersOK'
  <2>1. PollerOK(del_event(pollers[w], fd)) /\ ContainerOK(containers[w])
    BY <1>1, DelEventOK DEF WorkersOK
  <2>2. /\ pollers' = [pollers EXCEPT ![w] = del_event(pollers[w], fd)]
        /\ containers' = [containers EXCEPT ![w] = containers[w]]
    BY <1>1 DEF Stale, WorkersOK
  <2> QED BY <1>1, <2>1, <2>2, WorkersSet
<1> QED BY <1>2, <1>3, QuietIInv DEF Stale

(* The worker reads its mailbox.                                           *)
LEMMA ReadMailIInv ==
  ASSUME IInv, NEW w \in Worker, NEW n \in 1 .. Len(down[w].chan), ReadMail(w, n)
  PROVE  IInv'
<1>1. StateOK /\ DownOK /\ WorkersOK
  BY DEF IInv
<1>2. StateOK' /\ WorkersOK'
  BY <1>1 DEF StateOK, WorkersOK, ReadMail, At
<1>3. down[w] \in Box(GateMessage)
  BY <1>1 DEF DownOK
<1>4. read(down[w], n) \in Box(GateMessage) /\ SubSeq(down[w].chan, 1, n) \in Seq(GateMessage)
  BY <1>3, BoxOps
<1>5. DownOK'
  BY <1>1, <1>4 DEF DownOK, ReadMail
<1> QED BY <1>2, <1>5, QuietIInv DEF ReadMail

(* new_connect, or nothing (connect_worker.cc:78-101,145-181).             *)
LEMMA HandleMailIInv ==
  ASSUME IInv, NEW w \in Worker, HandleMail(w)
  PROVE  IInv'
<1> DEFINE m == Head(mail[w])
           v == AllocVfd(containers[w])
<1>1. StateOK /\ DownOK /\ WorkersOK
  BY DEF IInv
<1>2. m \in GateMessage /\ Tail(mail[w]) \in Seq(GateMessage)
  BY <1>1, HeadTail DEF DownOK, HandleMail
<1>3. StateOK' /\ DownOK'
  BY <1>1, <1>2 DEF StateOK, DownOK, HandleMail
<1>4. WorkersOK'
  <2>1. CASE m.type = "NEWCONN" /\ v >= 0
    <3>1. m \in [type : {"PEER_CLOSE", "NEWCONN", "DO_CLOSE"}, fd : Int, hid : Int]
      BY <1>2, <2>1 DEF GateMessage
    <3>2. PollerOK(pollers[w]) /\ ContainerOK(containers[w])
      BY <1>1 DEF WorkersOK
    <3>3. /\ containers' = [containers EXCEPT ![w] = NewConn(containers[w], v, m)]
          /\ pollers' = [pollers EXCEPT ![w] = add_fd(pollers[w], m.fd, v)]
      BY <2>1 DEF HandleMail
    <3> HIDE DEF m
    <3>4. v \in Vfd /\ ContainerOK(NewConn(containers[w], v, m))
      BY <2>1, <3>1, <3>2, NewConnOK
    <3> HIDE DEF v
    <3>5. PollerOK(add_fd(pollers[w], m.fd, v))
      BY <3>2, <3>4, AddFdOK, GateAssumption
    <3> QED BY <1>1, <3>3, <3>4, <3>5, WorkersSet
  <2>2. CASE ~(m.type = "NEWCONN" /\ v >= 0)
    BY <1>1, <2>2 DEF HandleMail, WorkersOK
  <2> QED BY <2>1, <2>2
<1> QED BY <1>3, <1>4, QuietIInv DEF HandleMail

(* on_read without an error (connect_worker.cc:104-141).                   *)
LEMMA ReadDataIInv ==
  ASSUME IInv, NEW w \in Worker, NEW fd \in Fd, NEW v \in Vfd, ReadData(w, fd, v)
  PROVE  IInv'
<1>1. StateOK /\ DownOK /\ WorkersOK
  BY DEF IInv
<1>2. socket' \in [Sockets -> SockState]
  BY <1>1 DEF StateOK, ReadData, Echoed, SockState
<1>3. StateOK' /\ DownOK' /\ WorkersOK'
  BY <1>1, <1>2 DEF StateOK, DownOK, WorkersOK, ReadData, At
<1> QED BY <1>3, QuietIInv DEF ReadData

(* on_read after an error: wait_close, PEER_CLOSE, close_connect           *)
(* (connect_worker.cc:49-75,104-120).                                      *)
LEMMA ReadErrorIInv ==
  ASSUME IInv, NEW w \in Worker, NEW fd \in Fd, NEW v \in Vfd, ReadError(w, fd, v)
  PROVE  IInv'
<1> DEFINE c == containers[w]
           s == c.fd_[v]
           m == [type |-> "PEER_CLOSE", fd |-> s, hid |-> c.hid_[v]]
<1>1. MainOK /\ StateOK /\ UpOK /\ DownOK /\ WorkersOK /\ StartOrder /\ ListenBarrier
  BY DEF IInv
<1>2. c \in Container /\ ContainerOK(c) /\ PollerOK(pollers[w])
  BY <1>1 DEF WorkersOK
<1>3. s \in Int /\ c.hid_[v] \in Int
  BY <1>2 DEF Container
<1>4. /\ FreeAllowed(c)
      /\ pollers' = [pollers EXCEPT ![w] = close_fd(wait_close(pollers[w], s), s)]
      /\ containers' = [containers EXCEPT ![w] = free_connect(c, v)]
      /\ up' = [up EXCEPT ![w] = write(up[w], m)]
      /\ UNCHANGED <<mainVars, inbox, down, wphase, mail>>
  BY DEF ReadError, mainVars
<1>5. StateOK'
  <2>1. socket' \in [Sockets -> SockState]
    BY <1>1 DEF StateOK, ReadError, SockState
  <2> QED BY <1>1, <2>1 DEF StateOK, ReadError, At
<1>6. m \in Told(Loop)
  BY <1>3 DEF Told
<1> HIDE DEF c, s, m
<1>7. DownOK'
  BY <1>1, <1>4 DEF DownOK
<1>8. WorkersOK'
  <2>1. PollerOK(close_fd(wait_close(pollers[w], s), s))
    BY <1>2, <1>3, WaitCloseOK, CloseFdOK
  <2>2. ContainerOK(free_connect(c, v))
    BY <1>2, <1>4, FreeConnOK
  <2> QED BY <1>1, <1>4, <2>1, <2>2, WorkersSet
<1>9. Loop' = Loop
  BY <1>4 DEF Loop
<1>10. MainOK' /\ StartOrder' /\ ListenBarrier'
  BY <1>1, <1>4, <1>9, BarrierKept
<1>11. UpOK'
  <2>1. write(up[w], m) \in Box(Told(Loop))
    BY <1>1, <1>6, BoxOps DEF UpOK
  <2>2. up' \in [Worker -> Box(Told(Loop))]
    BY <1>1, <1>4, <2>1 DEF UpOK
  <2> QED BY <1>1, <1>4, <1>9, <2>2 DEF UpOK
<1> QED BY <1>5, <1>7, <1>8, <1>10, <1>11 DEF IInv

(* A client changes the state of its socket only.                          *)
LEMMA ClientIInv ==
  ASSUME IInv, NEW s \in Sockets, ClientStep(s)
  PROVE  IInv'
<1>1. StateOK /\ DownOK /\ WorkersOK
  BY DEF IInv
<1>2. \E to \in SockState : socket' = [socket EXCEPT ![s] = to]
  BY DEF ClientStep, Connecting, Sending, Closing, Resetting, Client, SockState
<1>3. UNCHANGED <<mainVars, up, down, wphase, wevents, mail, pollers, containers>>
  BY DEF ClientStep, Connecting, Sending, Closing, Resetting, Client, workerVars
<1>4. StateOK' /\ DownOK' /\ WorkersOK'
  BY <1>1, <1>2, <1>3 DEF StateOK, DownOK, WorkersOK
<1> QED BY <1>3, <1>4, QuietIInv

-----------------------------------------------------------------------------
(* Every step preserves IInv.                                              *)
LEMMA NextIInv == IInv /\ [GateNext]_gateVars => IInv'
<1> SUFFICES ASSUME IInv, [GateNext]_gateVars PROVE IInv'
  OBVIOUS
<1>1. CASE StartStep \/ MainHandle
  BY <1>1, StartWorkerIInv, StartOkIInv, ConnNotifyIInv DEF StartStep, MainHandle
<1>2. ASSUME NEW w \in Worker, MainMail(w) \/ Boot(w) \/ WorkerStep(w)  PROVE IInv'
  <2>1. CASE MainMail(w) \/ Boot(w)
    BY <2>1, MainReadIInv, BootIInv DEF MainMail
  <2>2. CASE DispatchStep(w)
    BY <2>2, ReadMailIInv, StaleIInv, ReadDataIInv, ReadErrorIInv DEF DispatchStep
  <2>3. CASE Poll(w) \/ HandleMail(w) \/ EndOfRound(w)
    BY <2>3, RoundIInv, HandleMailIInv
  <2> QED BY <1>2, <2>1, <2>2, <2>3 DEF WorkerStep
<1>3. ASSUME NEW s \in Sockets, Accept(s) \/ ClientStep(s)  PROVE IInv'
  BY <1>3, AcceptIInv, ClientIInv
<1>4. CASE UNCHANGED gateVars
  <2>1. UNCHANGED <<mainVars, up, down, wphase, wevents, mail, pollers, containers, socket>>
    BY <1>4 DEF gateVars, workerVars
  <2>2. StateOK' /\ DownOK' /\ WorkersOK'
    BY <2>1 DEF IInv, StateOK, DownOK, WorkersOK
  <2> QED BY <2>1, <2>2, QuietIInv
<1> QED BY <1>1, <1>2, <1>3, <1>4 DEF GateNext

(* The inductive invariant holds in every reachable state.                 *)
LEMMA IInvAlways == GateSpec => []IInv
BY InitIInv, NextIInv, PTL DEF GateSpec

(* The variables of the gateway keep their types: in particular the hid    *)
(* counter never reaches the thread bits (client_mgr.cc:191-192) and the   *)
(* free stack is never indexed outside its array (connect.cc:112-151).     *)
THEOREM GateTyped == GateSpec => []GateTypeOK
<1>1. IInv => GateTypeOK
  <2> SUFFICES ASSUME IInv PROVE GateTypeOK
    OBVIOUS
  <2>1. Loop \subseteq Worker /\ GateMessage = Told(Worker)
    BY ToldMessage
  <2>2. Seq(Told(Loop)) \subseteq Seq(GateMessage) /\ Box(Told(Loop)) \subseteq Box(GateMessage)
    BY <2>1, ToldMono
  <2>3. inbox \in Seq(GateMessage) /\ up \in [Worker -> Box(GateMessage)]
    BY <2>2 DEF IInv, UpOK
  <2> QED BY <2>3 DEF IInv, MainOK, StateOK, DownOK, WorkersOK, GateTypeOK, Box
<1> QED BY <1>1, IInvAlways, PTL

(* The gateway opens its port only after every worker is in its loop,      *)
(* however START_OK messages are delayed, batched or resent                *)
(* (client_mgr.cc:254-271, connect_worker.cc:198-211).                     *)
THEOREM ListenBarrierSafe == GateSpec => []ListenBarrier
<1>1. IInv => ListenBarrier
  BY DEF IInv
<1> QED BY <1>1, IInvAlways, PTL
=============================================================================
