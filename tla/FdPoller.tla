------------------------------ MODULE FdPoller ------------------------------
(***************************************************************************)
(* The event loop of one thread as a component: FdPollerBase::process()    *)
(* with EpollPoller::do_poll(), and the calls the owners and reactors of   *)
(* descriptors make between two polls or from inside an event handler.     *)
(*                                                                         *)
(* do_poll takes a snapshot of ready descriptors and then calls reactors   *)
(* one by one; every handler may change the entry of a descriptor whose    *)
(* event is still in the snapshot.                                         *)
(***************************************************************************)
EXTENDS PollerOps

CONSTANTS
  Descriptors,   \* descriptors the kernel gives to the owners
  Owners,        \* reactors the owners register
  PendingBound   \* bound on the length of pending_new_

ASSUME PendingBoundAssumption == PendingBound \in Nat
ASSUME OwnersAssumption == Descriptors \subseteq Fd /\ Owners \subseteq Reactor

VARIABLES
  poller,    \* the FdPollerBase / EpollPoller object
  open,      \* descriptors the process has open (kernel)
  events,    \* descriptors of the epoll_wait snapshot not dispatched yet
  phase,     \* "idle": outside do_poll; "dispatch": inside its loop
  crashed    \* a virtual call was made through a NULL reactor

pollerVars == <<poller, open, events, phase, crashed>>

PollerInit ==
  /\ poller = EmptyPoller
  /\ open = Descriptors
  /\ events = {}
  /\ phase = "idle"
  /\ crashed = FALSE

-----------------------------------------------------------------------------
(* Calls made by owners of descriptors and by reactors.                    *)

AddFd(fd, r) ==
  /\ fd \in open
  /\ Len(poller.pending_new_) < PendingBound
  /\ poller' = add_fd(poller, fd, r)
  /\ UNCHANGED <<open, events, phase, crashed>>

WaitClose(fd) ==
  /\ poller' = wait_close(poller, fd)
  /\ UNCHANGED <<open, events, phase, crashed>>

(* An owner closes a descriptor it registered, once per round.             *)
CloseFd(fd) ==
  /\ poller.status[fd] # "EMPTY" /\ fd \notin RetiredFds(poller)
  /\ poller' = close_fd(poller, fd)
  /\ UNCHANGED <<open, events, phase, crashed>>

SetReactor(fd, r) ==
  /\ poller' = set_reactor(poller, fd, r)
  /\ UNCHANGED <<open, events, phase, crashed>>

(* add_event on the descriptor of an ACTIVE entry: its only callers are    *)
(* add_fd and the loop over pending_new_, which have just made the entry   *)
(* ACTIVE (fd_poller.cc:62,147), so this is where the project calls it.    *)
AddEvent(fd, ev) ==
  /\ fd \in open /\ poller.status[fd] = "ACTIVE"
  /\ poller' = add_event(poller, fd, ev)
  /\ UNCHANGED <<open, events, phase, crashed>>

DelEvent(fd) ==
  /\ poller' = del_event(poller, fd)
  /\ UNCHANGED <<open, events, phase, crashed>>

(* "somewhere call close(fd) instead of FdPollerBase::close_fd()": the     *)
(* kernel drops the registration, the entry is left dirty.                 *)
OsClose(fd) ==
  /\ fd \in open
  /\ open' = open \ {fd}
  /\ poller' = [poller EXCEPT !.reg[fd] = "NONE"]
  /\ UNCHANGED <<events, phase, crashed>>

(* accept() or socket() reuses a closed descriptor number.                 *)
OsOpen(fd) ==
  /\ fd \notin open
  /\ open' = open \cup {fd}
  /\ UNCHANGED <<poller, events, phase, crashed>>

-----------------------------------------------------------------------------
(* The loop.                                                               *)

(* epoll_wait returns some of the registered descriptors.                  *)
PollWait(ready) ==
  /\ phase = "idle"
  /\ ready \subseteq {fd \in Fd : poller.reg[fd] # "NONE"}
  /\ events' = ready
  /\ phase' = "dispatch"
  /\ UNCHANGED <<poller, open, crashed>>

(* Mutant of Dispatchable: do_poll trusts its snapshot.                    *)
BugDispatchable(fd) == TRUE

(* The test of do_poll before it calls the reactor of an event.            *)
Dispatchable(fd) == poller.status[fd] = "ACTIVE"

(* One iteration of the event loop: a stale event is dropped, otherwise    *)
(* on_ev_read or on_ev_write is called through the entry's reactor.        *)
Dispatch(fd) ==
  /\ phase = "dispatch" /\ fd \in events
  /\ events' = events \ {fd}
  /\ IF Dispatchable(fd)
     THEN /\ crashed' = (crashed \/ poller.reactor[fd] = NoReactor)
          /\ UNCHANGED poller
     ELSE /\ poller' = del_event(poller, fd)
          /\ UNCHANGED crashed
  /\ UNCHANGED <<open, phase>>

EndRound ==
  /\ phase = "dispatch" /\ events = {}
  /\ poller' = Sweep(poller, open)
  /\ open' = open \ ClosedBySweep(poller)
  /\ phase' = "idle"
  /\ UNCHANGED <<events, crashed>>

PollerNext ==
  \/ \E fd \in Descriptors :
       \/ WaitClose(fd) \/ CloseFd(fd) \/ DelEvent(fd)
       \/ OsClose(fd) \/ OsOpen(fd) \/ Dispatch(fd)
       \/ \E r \in Owners : AddFd(fd, r) \/ SetReactor(fd, r)
       \/ \E ev \in {"IN", "OUT"} : AddEvent(fd, ev)
  \/ \E ready \in SUBSET Descriptors : PollWait(ready)
  \/ EndRound

PollerSpec == PollerInit /\ [][PollerNext]_pollerVars

-----------------------------------------------------------------------------
PollerTypeOK ==
  /\ poller \in Poller
  /\ open \subseteq Fd
  /\ events \subseteq Fd
  /\ phase \in {"idle", "dispatch"}
  /\ crashed \in BOOLEAN

(* No handler is ever called through a NULL reactor, although handlers     *)
(* clear the reactors of descriptors whose events are still queued         *)
(* (epoll.cc:102-111 against fd_poller.cc:81-82).                          *)
NoNullDispatch == ~crashed

(* An ACTIVE entry always has a reactor: wait_close takes both away.       *)
ActiveHasReactor ==
  \A fd \in Fd : poller.status[fd] = "ACTIVE" => poller.reactor[fd] # NoReactor

(* A descriptor is in the epoll set only while its entry is ACTIVE, so a   *)
(* level-triggered event nobody will handle cannot spin the loop           *)
(* (fd_poller.cc:80,132, epoll.cc:103).                                    *)
RegisteredIsActive ==
  \A fd \in Fd : poller.reg[fd] # "NONE" => poller.status[fd] = "ACTIVE"

(* The round that retires a descriptor closes it (fd_poller.cc:86 "close   *)
(* it current loop completed", fd_poller.cc:129 "close retired fd").       *)
RetiredFdsAreClosed ==
  [][phase = "dispatch" /\ phase' = "idle" => RetiredFds(poller) \cap open' = {}]_pollerVars
=============================================================================
