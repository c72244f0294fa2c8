-------------------------- MODULE ConnectContainer --------------------------
(***************************************************************************)
(* The connection container as a component: its one user allocates         *)
(* connections, activates them, and frees each of them once, as            *)
(* ConnectWorker::new_connect and close_connect do for distinct sockets.   *)
(***************************************************************************)
EXTENDS ContainerOps

CONSTANT ConnFds   \* descriptors the user may pass to alloc_connect

ASSUME ConnFdsAssumption == ConnFds \subseteq Nat

VARIABLES
  container,   \* the ConnectContainer
  held         \* indices handed out and not freed yet (observer)

containerVars == <<container, held>>

ContainerInit ==
  /\ container = EmptyContainer
  /\ held = {}

(* alloc_connect succeeds; the user sets CONN_ACTIVE (new_connect).        *)
Alloc(fd) ==
  LET v == AllocVfd(container)
  IN  /\ v >= 0
      /\ container' = [alloc_connect(container, v, fd) EXCEPT !.status_[v] = "ACTIVE"]
      /\ held' = held \cup {v}

Free(v) ==
  /\ v \in held
  /\ FreeAllowed(container)
  /\ container' = free_connect(container, v)
  /\ held' = held \ {v}

ContainerNext ==
  \/ \E fd \in ConnFds : Alloc(fd)
  \/ \E v \in Vfd : Free(v)

ContainerSpec == ContainerInit /\ [][ContainerNext]_containerVars

-----------------------------------------------------------------------------
ContainerTypeOK ==
  /\ container \in Container
  /\ held \subseteq Vfd

(* The stack holds exactly the free indices above stack_top_, each once:   *)
(* no index is both held and free and none is lost, so two live            *)
(* connections never share an object (connect.cc:119-131,148-150).         *)
FreeStackExact ==
  LET above == {i \in Vfd : i >= container.stack_top_}
  IN  /\ \A i, j \in above :
            container.free_stack_[i] = container.free_stack_[j] => i = j
      /\ \A v \in Vfd : v \notin held <=> \E i \in above : container.free_stack_[i] = v

(* Below capacity alloc_connect always succeeds: the AX_RET_ERROR return   *)
(* at connect.cc:123 is never taken, and AX_RET_FULL exactly when every    *)
(* object is held; the RT_ASSERT of free_connect (connect.cc:139) never    *)
(* fires for an index that is held.                                        *)
AllocFailsOnlyWhenFull ==
  /\ AllocVfd(container) < 0 <=> held = Vfd
  /\ held # {} => FreeAllowed(container)
=============================================================================
