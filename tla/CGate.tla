------------------------------- MODULE CGate -------------------------------
(***************************************************************************)
(* The client gateway, cgate_mt: the main thread (ClientMgr), the worker   *)
(* threads (ConnectWorker), and the pipes between them.                    *)
(*                                                                         *)
(* The main thread starts the workers, waits for WORKER_START_OK from each *)
(* of them, listens, and hands every accepted socket to a worker in a      *)
(* NEWCONN message.  A worker runs its own poller and its own connection   *)
(* container (PollerOps, ContainerOps); a pipe is a mailbox (MailboxOps)   *)
(* in each direction.  Clients connect, send, close and reset.             *)
(***************************************************************************)
EXTENDS PollerOps, ContainerOps, MailboxOps

CONSTANTS
  WorkerNum,     \* worker_num_
  Sockets,       \* descriptors accept() returns; they are process-wide
  Resettable,    \* sockets whose client may reset the connection
  StartMayFail,  \* whether pthread_create may fail
  HidSpace,      \* 2 ^ HID_THR_BITS, the size of the hid counter
  MaxLog,        \* bound on the messages written to one mailbox
  Pipe           \* the reactor of a worker's end of its mailbox

Worker == 0 .. WorkerNum - 1
MailFd == 0      \* the descriptor of a worker's end of its mailbox

ASSUME GateAssumption ==
  /\ WorkerNum \in 1 .. 32 /\ HidSpace \in Nat \ {0, 1} /\ MaxLog \in Nat
  /\ Sockets \subseteq Nat \ {MailFd} /\ Resettable \subseteq Sockets
  /\ StartMayFail \in BOOLEAN
  /\ Pipe \notin Vfd /\ Reactor = Vfd \cup {Pipe}

VARIABLES
  nstarted,    \* main: workers start_worker() has gone through
  wstatus,     \* main: workers_[w].status
  hid_,        \* main: the hid counter
  listening,   \* main: the listener is bound and polled
  inbox,       \* main: messages of the read event being handled
  up, down,    \* the mailboxes, worker to main and main to worker
  wphase,      \* worker: "none", "boot", "poll" or "dispatch"
  wevents,     \* worker: ready descriptors not dispatched yet
  mail,        \* worker: messages of the read event being handled
  pollers,     \* worker: poller_
  containers,  \* worker: container_
  socket       \* the client sockets

mainVars == <<nstarted, wstatus, hid_, listening, inbox>>
workerVars == <<wphase, wevents, mail, pollers, containers>>
gateVars == <<mainVars, up, down, workerVars, socket>>

(* What a client's socket is to the gateway; "cut" is "idle" after an echo *)
(* of which a part is lost.                                                *)
SockState == {"new", "queued", "idle", "cut", "data", "fin", "rst", "dead"}

GateInit ==
  /\ nstarted = 0
  /\ wstatus = [w \in Worker |-> "NULL"]
  /\ hid_ = 1
  /\ listening = FALSE
  /\ inbox = <<>>
  /\ up = [w \in Worker |-> EmptyMailbox]
  /\ down = [w \in Worker |-> EmptyMailbox]
  /\ wphase = [w \in Worker |-> "none"]
  /\ wevents = [w \in Worker |-> {}]
  /\ mail = [w \in Worker |-> <<>>]
  /\ pollers = [w \in Worker |-> EmptyPoller]
  /\ containers = [w \in Worker |-> EmptyContainer]
  /\ socket = [s \in Sockets |-> "new"]

-----------------------------------------------------------------------------
(* The main thread.                                                        *)

(* One iteration of start_worker(): the thread is created, or not.         *)
StartWorker(ok) ==
  /\ nstarted < WorkerNum
  /\ ok \/ StartMayFail
  /\ nstarted' = nstarted + 1
  /\ wstatus' = [wstatus EXCEPT ![nstarted] = IF ok THEN "START" ELSE "NULL"]
  /\ wphase' = [wphase EXCEPT ![nstarted] = IF ok THEN "boot" ELSE "none"]
  /\ UNCHANGED <<hid_, listening, inbox, up, down, wevents, mail, pollers, containers, socket>>

(* The main thread is in process() and between two event handlers.         *)
MainIdle == nstarted = WorkerNum /\ inbox = <<>>

(* tpipe_t::on_ev_read on the main side finds n messages of worker w.      *)
MainRead(w, n) ==
  /\ MainIdle
  /\ n \in 1 .. Len(up[w].chan)
  /\ inbox' = SubSeq(up[w].chan, 1, n)
  /\ up' = [up EXCEPT ![w] = read(@, n)]
  /\ UNCHANGED <<nstarted, wstatus, hid_, listening, down, workerVars, socket>>

(* Mutant of AllActive: one ready worker is enough.                        *)
BugAllActive(status) == \E w \in Worker : status[w] = "ACTIVE"

(* The loop of process_worker_command over workers_.                       *)
AllActive(status) == \A w \in Worker : status[w] = "ACTIVE"

(* process_worker_command: WORKER_START_OK.  Listener::listen() fails in   *)
(* bind() and changes nothing when the socket is already bound.            *)
StartOk ==
  /\ inbox # <<>> /\ Head(inbox).type = "START_OK"
  /\ wstatus' = [wstatus EXCEPT ![Head(inbox).w] = "ACTIVE"]
  /\ listening' = (listening \/ AllActive(wstatus'))
  /\ inbox' = Tail(inbox)
  /\ UNCHANGED <<nstarted, hid_, up, down, workerVars, socket>>

(* THR_IDX_FROM_HID, with HID_THR_MASK = 0x3F.                             *)
ThrIdx(hid) == (hid \div HidSpace) % 64

(* process_conn_notify: PEER_CLOSE is answered by DO_CLOSE to the worker   *)
(* the hid names; send_worker_ctrl asserts that there is one (RoutedByHid). *)
ConnNotify ==
  /\ inbox # <<>> /\ Head(inbox).type = "PEER_CLOSE"
  /\ LET m == Head(inbox)
         idx == ThrIdx(m.hid)
     IN  /\ idx \in Worker /\ Len(down[idx].log) < MaxLog
         /\ down' = [down EXCEPT ![idx] =
                       write(@, [type |-> "DO_CLOSE", fd |-> m.fd, hid |-> m.hid])]
  /\ inbox' = Tail(inbox)
  /\ UNCHANGED <<nstarted, wstatus, hid_, listening, up, workerVars, socket>>

(* Mutant of NextHid: the counter runs into the thread bits.               *)
BugNextHid(h) == h + 1

(* ++hid_; hid_ &= ~(HID_THR_MASK << HID_THR_BITS)                         *)
NextHid(h) == (h + 1) % HidSpace

(* active_conn is set to 0 by start_worker() and never written again.      *)
active_conn(w) == 0

(* The loop of on_accept_new_connect, which compares with workers_[1] for  *)
(* every i.                                                                *)
SelectWorker == IF WorkerNum > 1 /\ active_conn(0) > active_conn(1) THEN 1 ELSE 0

(* on_listen_read accepts a socket, on_accept_new_connect dispatches it.   *)
Accept(s) ==
  /\ MainIdle /\ listening
  /\ socket[s] = "queued"
  /\ Len(down[SelectWorker].log) < MaxLog
  /\ socket' = [socket EXCEPT ![s] = "idle"]
  /\ hid_' = NextHid(hid_)
  /\ down' = [down EXCEPT ![SelectWorker] =
                write(@, [type |-> "NEWCONN", fd |-> s,
                          hid |-> SelectWorker * HidSpace + hid_'])]
  /\ UNCHANGED <<nstarted, wstatus, listening, inbox, up, workerVars>>

-----------------------------------------------------------------------------
(* The worker threads.                                                     *)

(* Mutant of Hello: idx_ is not passed to the worker.                      *)
BugHello(w) == [type |-> "START_OK", w |-> 0]

(* The WORKER_START_OK notification of start_loop; lparam is idx_.         *)
Hello(w) == [type |-> "START_OK", w |-> w]

(* thread_worker_fn up to the loop: register the mailbox, say START_OK.    *)
Boot(w) ==
  /\ wphase[w] = "boot"
  /\ wphase' = [wphase EXCEPT ![w] = "poll"]
  /\ pollers' = [pollers EXCEPT ![w] = add_fd(@, MailFd, Pipe)]
  /\ up' = [up EXCEPT ![w] = write(@, Hello(w))]
  /\ UNCHANGED <<mainVars, down, wevents, mail, containers, socket>>

Readable(w, fd) ==
  IF fd = MailFd THEN down[w].chan # <<>>
  ELSE fd \in Sockets /\ socket[fd] \in {"data", "fin", "rst", "dead"}

Ready(w) == {fd \in Fd : pollers[w].reg[fd] = "IN" /\ Readable(w, fd)}

(* epoll_wait returns.                                                     *)
Poll(w) ==
  /\ wphase[w] = "poll"
  /\ Ready(w) # {}
  /\ wevents' = [wevents EXCEPT ![w] = Ready(w)]
  /\ wphase' = [wphase EXCEPT ![w] = "dispatch"]
  /\ UNCHANGED <<mainVars, up, down, mail, pollers, containers, socket>>

(* The loop of do_poll may be at descriptor fd next.                       *)
NextEvent(w, fd) == wphase[w] = "dispatch" /\ mail[w] = <<>> /\ fd \in wevents[w]

At(w, fd) ==
  /\ NextEvent(w, fd)
  /\ wevents' = [wevents EXCEPT ![w] = @ \ {fd}]

Stale(w, fd) ==
  /\ At(w, fd)
  /\ pollers[w].status[fd] # "ACTIVE"
  /\ pollers' = [pollers EXCEPT ![w] = del_event(@, fd)]
  /\ UNCHANGED <<mainVars, up, down, wphase, mail, containers, socket>>

(* The event of fd is for reactor r.                                       *)
ReactorIs(w, fd, r) == pollers[w].status[fd] = "ACTIVE" /\ pollers[w].reactor[fd] = r

(* tpipe_t::on_ev_read on the worker side finds n messages.                *)
ReadMail(w, n) ==
  /\ At(w, MailFd)
  /\ ReactorIs(w, MailFd, Pipe)
  /\ n \in 1 .. Len(down[w].chan)
  /\ mail' = [mail EXCEPT ![w] = SubSeq(down[w].chan, 1, n)]
  /\ down' = [down EXCEPT ![w] = read(@, n)]
  /\ UNCHANGED <<mainVars, up, wphase, pollers, containers, socket>>

(* Connection v of worker w after new_connect allocated and filled it.     *)
NewConn(c, v, m) ==
  [alloc_connect(c, v, m.fd) EXCEPT !.hid_[v] = m.hid, !.status_[v] = "ACTIVE"]

(* on_mailbox_read: NEWCONN calls new_connect, which ignores the result of *)
(* add_fd; process_conn_ctrl unpacks DO_CLOSE and does nothing.            *)
HandleMail(w) ==
  /\ mail[w] # <<>>
  /\ mail' = [mail EXCEPT ![w] = Tail(@)]
  /\ LET m == Head(mail[w])
         v == AllocVfd(containers[w])
     IN  IF m.type = "NEWCONN" /\ v >= 0
         THEN /\ containers' = [containers EXCEPT ![w] = NewConn(@, v, m)]
              /\ pollers' = [pollers EXCEPT ![w] = add_fd(@, m.fd, v)]
         ELSE UNCHANGED <<containers, pollers>>
  /\ UNCHANGED <<mainVars, up, down, wphase, wevents, socket>>

(* process_data: ::write may take less than it is given, or fail.  Its     *)
(* result is not looked at and all of the data is popped.                  *)
Echoed == {"idle", "cut"}

(* on_read: data is echoed; end of file and EAGAIN change nothing.  For a  *)
(* connection that is not ACTIVE read() returns -1 without touching errno, *)
(* so whether on_read returns depends on an earlier call.  What a client   *)
(* has sent fits one read().                                               *)
ReadData(w, fd, v) ==
  /\ At(w, fd) /\ ReactorIs(w, fd, v)
  /\ LET s == containers[w].fd_[v]
     IN  IF containers[w].status_[v] = "ACTIVE" /\ socket[s] = "data"
         THEN \E outcome \in Echoed : socket' = [socket EXCEPT ![s] = outcome]
         ELSE /\ containers[w].status_[v] # "ACTIVE" \/ socket[s] # "rst"
              /\ UNCHANGED socket
  /\ UNCHANGED <<mainVars, up, down, wphase, mail, pollers, containers>>

(* on_read finds an error.                                                 *)
ReadFails(w, v) ==
  containers[w].status_[v] # "ACTIVE" \/ socket[containers[w].fd_[v]] = "rst"

(* on_read after an error: wait_close, the PEER_CLOSE notification, and    *)
(* close_connect, whose free_connect asserts that something is allocated;  *)
(* the process aborts where it is not (FreeConnectAsserts).                *)
ReadError(w, fd, v) ==
  /\ At(w, fd) /\ ReactorIs(w, fd, v)
  /\ LET c == containers[w]
         s == c.fd_[v]
     IN  /\ ReadFails(w, v)
         /\ FreeAllowed(c)
         /\ Len(up[w].log) < MaxLog
         /\ socket' = IF c.status_[v] = "ACTIVE" THEN [socket EXCEPT ![s] = "dead"] ELSE socket
         /\ pollers' = [pollers EXCEPT ![w] = close_fd(wait_close(@, s), s)]
         /\ up' = [up EXCEPT ![w] = write(@, [type |-> "PEER_CLOSE", fd |-> s,
                                              hid |-> c.hid_[v]])]
         /\ containers' = [containers EXCEPT ![w] = free_connect(c, v)]
  /\ UNCHANGED <<mainVars, down, wphase, mail>>

(* Every descriptor the process has open: it never closes one, as the      *)
(* sweep resets an entry before it looks at the entry's status.            *)
Open == {MailFd} \cup {s \in Sockets : socket[s] \notin {"new", "queued"}}

EndOfRound(w) ==
  /\ wphase[w] = "dispatch" /\ mail[w] = <<>> /\ wevents[w] = {}
  /\ pollers' = [pollers EXCEPT ![w] = Sweep(@, Open)]
  /\ wphase' = [wphase EXCEPT ![w] = "poll"]
  /\ UNCHANGED <<mainVars, up, down, wevents, mail, containers, socket>>

-----------------------------------------------------------------------------
(* The clients.                                                            *)

Client(s, from, to) ==
  /\ socket[s] \in from
  /\ socket' = [socket EXCEPT ![s] = to]
  /\ UNCHANGED <<mainVars, up, down, workerVars>>

Connecting(s) == listening /\ Client(s, {"new"}, "queued")
Sending(s) == Client(s, {"idle", "cut"}, "data")
Closing(s) == Client(s, {"idle", "cut"}, "fin")
Resetting(s) == s \in Resettable /\ Client(s, {"idle", "cut", "data"}, "rst")

-----------------------------------------------------------------------------
StartStep == \E ok \in BOOLEAN : StartWorker(ok)
MainMail(w) == \E n \in 1 .. Len(up[w].chan) : MainRead(w, n)
MainHandle == StartOk \/ ConnNotify

DispatchStep(w) ==
  \/ \E n \in 1 .. Len(down[w].chan) : ReadMail(w, n)
  \/ \E fd \in Fd : \/ Stale(w, fd)
                    \/ \E v \in Vfd : ReadData(w, fd, v) \/ ReadError(w, fd, v)

WorkerStep(w) == Poll(w) \/ DispatchStep(w) \/ HandleMail(w) \/ EndOfRound(w)

ClientStep(s) == Connecting(s) \/ Sending(s) \/ Closing(s) \/ Resetting(s)

GateNext ==
  \/ StartStep \/ MainHandle
  \/ \E w \in Worker : MainMail(w) \/ Boot(w) \/ WorkerStep(w)
  \/ \E s \in Sockets : Accept(s) \/ ClientStep(s)

GateSpec == GateInit /\ [][GateNext]_gateVars

(* Threads keep running and the pollers are level-triggered; clients do    *)
(* what they like.                                                         *)
GateFairness ==
  /\ WF_gateVars(StartStep) /\ WF_gateVars(MainHandle)
  /\ \A w \in Worker : WF_gateVars(MainMail(w)) /\ WF_gateVars(Boot(w)) /\ WF_gateVars(WorkerStep(w))
  /\ \A s \in Sockets : WF_gateVars(Accept(s))

GateFairSpec == GateSpec /\ GateFairness

-----------------------------------------------------------------------------
GateMessage ==
  [type : {"START_OK"}, w : Worker]
    \cup [type : {"PEER_CLOSE", "NEWCONN", "DO_CLOSE"}, fd : Int, hid : Int]

GateTypeOK ==
  /\ nstarted \in 0 .. WorkerNum
  /\ wstatus \in [Worker -> {"NULL", "START", "ACTIVE"}]
  /\ hid_ \in 0 .. HidSpace - 1
  /\ listening \in BOOLEAN
  /\ inbox \in Seq(GateMessage)
  /\ up \in [Worker -> [log : Seq(GateMessage), chan : Seq(GateMessage)]]
  /\ down \in [Worker -> [log : Seq(GateMessage), chan : Seq(GateMessage)]]
  /\ wphase \in [Worker -> {"none", "boot", "poll", "dispatch"}]
  /\ wevents \in [Worker -> SUBSET Fd]
  /\ mail \in [Worker -> Seq(GateMessage)]
  /\ pollers \in [Worker -> Poller]
  /\ containers \in [Worker -> Container]
  /\ socket \in [Sockets -> SockState]

(* The gateway listens only once every worker has registered its mailbox   *)
(* and entered its loop, so no socket is dispatched to a worker that is    *)
(* not there (client_mgr.cc:260-270, connect_worker.cc:198-211).           *)
ListenBarrier ==
  listening => \A w \in Worker : wphase[w] \in {"poll", "dispatch"}

Elements(s) == {s[i] : i \in 1 .. Len(s)}

(* Every message about a connection travels between the main thread and    *)
(* the worker its hid names, also after the hid counter has wrapped and    *)
(* through resent messages (client_mgr.cc:191-192,206,248,                 *)
(* connect_worker.cc:55-58).                                               *)
RoutedByHid ==
  \A w \in Worker :
    /\ \A m \in Elements(down[w].log) : ThrIdx(m.hid) = w
    /\ \A m \in Elements(up[w].log) : m.type = "PEER_CLOSE" => ThrIdx(m.hid) = w

(* One round never retires more descriptors than the array retired_ holds  *)
(* (fd_poller.cc:87-92), although a connection freed in an earlier round   *)
(* can be closed again.                                                    *)
RetiredInBounds == \A w \in Worker : Len(pollers[w].retired_) <= MaxFds

(* What a worker's poller calls for a client socket is one of its          *)
(* connections, and for its mailbox the pipe: NULL or the other kind of    *)
(* reactor is never dispatched to (epoll.cc:98-112, connect_worker.cc:99). *)
ReactorsInPlace ==
  \A w \in Worker : \A fd \in Fd :
    pollers[w].status[fd] = "ACTIVE" =>
      IF fd = MailFd THEN pollers[w].reactor[fd] = Pipe ELSE pollers[w].reactor[fd] \in Vfd

-----------------------------------------------------------------------------
(* Liveness, under GateFairSpec.                                           *)

(* A gateway that has begun to start its workers opens its port            *)
(* (client_mgr.cc:67-101,260-270).                                        *)
GateOpens == nstarted > 0 ~> listening

Served(w, s) ==
  /\ s \in Fd /\ pollers[w].status[s] = "ACTIVE"
  /\ containers[w].fd_[pollers[w].reactor[s]] = s

(* Every accepted socket is polled by a worker, through a connection that  *)
(* reads from it (client_mgr.cc:180-215, connect_worker.cc:78-101).        *)
AcceptedIsServed ==
  \A s \in Sockets : socket[s] = "idle" ~> \E w \in Worker : Served(w, s)

(* What a client sends is read and handed back to ::write, unless the      *)
(* client resets the connection first: nothing stays unread in a socket or *)
(* a buffer.  Whether ::write takes all of it is not promised              *)
(* (connect_worker.cc:104-141).                                            *)
DataIsAnswered ==
  \A s \in Sockets : socket[s] = "data" ~> socket[s] \in Echoed \cup {"rst", "dead"}

-----------------------------------------------------------------------------
(* What comments and assertions say of the program, and it does not do.    *)

(* free_connect is never called with nothing allocated (connect.cc:139     *)
(* "RT_ASSERT(stack_top_ > 0 && count_ > 0)").                             *)
FreeConnectAsserts ==
  \A w \in Worker : \A fd \in wevents[w], v \in Vfd :
    NextEvent(w, fd) /\ ReactorIs(w, fd, v) /\ ReadFails(w, v) => FreeAllowed(containers[w])

(* The connection of a client that closed its side is released             *)
(* (connect_worker.cc:113 "client socket fail/close").                     *)
PeerCloseReleases ==
  \A s \in Sockets : socket[s] = "fin" ~>
    \A w \in Worker, v \in Vfd :
      containers[w].fd_[v] = s => containers[w].status_[v] # "ACTIVE"
=============================================================================
