------------------------------ MODULE MemPool ------------------------------
(***************************************************************************)
(* The preallocated memory pool of core/mem_pool.cc (class MemPool).       *)
(*                                                                         *)
(* The pool owns Capacity nodes.  A free node stores, in its own first     *)
(* word, the number of the next free node (the free link); a node handed   *)
(* out stores whatever its owner writes there.  One flag byte behind every *)
(* node tells a free node (0x0) from an allocated one (0x77).  When every  *)
(* node is out, alloc() falls back on malloc().                            *)
(***************************************************************************)
EXTENDS Integers, Sequences

CONSTANTS
  Capacity,   \* capacity_: the number of preallocated nodes
  Blocks,     \* the blocks malloc() may return once the pool is full
  Words       \* what an owner may write over the first word of its node

ASSUME CapacityAssumption == Capacity \in Nat \ {0}
ASSUME BlocksAssumption   == Blocks \cap Int = {}
ASSUME WordsAssumption    == Words \subseteq Int

VARIABLES
  word,       \* the first word of every node
  flag,       \* the tail byte of every node: "FREE" or "ALLOC"
  free_node_, \* number of the first free node, -1 when there is none
  nalloc_,    \* number of pool nodes handed out
  owners,     \* how many callers hold each node or block (observer)
  avail       \* the free nodes in the order the pool hands them out (observer)

poolVars == <<word, flag, free_node_, nalloc_, owners, avail>>

Node == 0 .. Capacity - 1
Address == Node \cup Blocks

(* The free link the constructor writes into node n.                       *)
InitLink(n) == IF n < Capacity - 1 THEN n + 1 ELSE -1

PoolInit ==
  /\ word = [n \in Node |-> InitLink(n)]
  /\ flag = [n \in Node |-> "FREE"]
  /\ free_node_ = 0
  /\ nalloc_ = 0
  /\ owners = [a \in Address |-> 0]
  /\ avail = [i \in 1 .. Capacity |-> i - 1]

(* The test that sends alloc() to malloc().                                *)
Full == nalloc_ >= Capacity

(***************************************************************************)
(* The two RT_ASSERTs of alloc() and the one of free().  The process       *)
(* aborts where one fails, so each is the guard of its action; AssertsHold *)
(* below says that none of them ever does.                                 *)
(***************************************************************************)
AllocAsserts == free_node_ >= 0 /\ flag[free_node_] = "FREE"
FreeAsserts(n) == flag[n] = "ALLOC"

AllocNode ==
  /\ ~Full
  /\ AllocAsserts
  /\ free_node_' = word[free_node_]
  /\ flag' = [flag EXCEPT ![free_node_] = "ALLOC"]
  /\ nalloc_' = nalloc_ + 1
  /\ owners' = [owners EXCEPT ![free_node_] = @ + 1]
  /\ avail' = Tail(avail)
  /\ UNCHANGED word

AllocMalloc(b) ==
  /\ Full
  /\ owners[b] = 0
  /\ owners' = [owners EXCEPT ![b] = @ + 1]
  /\ UNCHANGED <<word, flag, free_node_, nalloc_, avail>>

(* Mutant of Relink: the freed node keeps what its owner wrote there.      *)
BugRelink(n) == UNCHANGED word

(* free() writes the link to the old first free node into node n.          *)
Relink(n) == word' = [word EXCEPT ![n] = free_node_]

(* A caller frees what it was handed.                                      *)
FreeNode(n) ==
  /\ owners[n] > 0
  /\ FreeAsserts(n)
  /\ Relink(n)
  /\ flag' = [flag EXCEPT ![n] = "FREE"]
  /\ free_node_' = n
  /\ nalloc_' = nalloc_ - 1
  /\ owners' = [owners EXCEPT ![n] = @ - 1]
  /\ avail' = <<n>> \o avail

FreeMalloc(b) ==
  /\ owners[b] > 0
  /\ owners' = [owners EXCEPT ![b] = @ - 1]
  /\ UNCHANGED <<word, flag, free_node_, nalloc_, avail>>

(* The owner of a node overwrites its first word, where the link was.      *)
UserWrite(n, v) ==
  /\ owners[n] > 0
  /\ word' = [word EXCEPT ![n] = v]
  /\ UNCHANGED <<flag, free_node_, nalloc_, owners, avail>>

PoolNext ==
  \/ AllocNode
  \/ \E b \in Blocks : AllocMalloc(b) \/ FreeMalloc(b)
  \/ \E n \in Node : FreeNode(n) \/ \E v \in Words : UserWrite(n, v)

PoolSpec == PoolInit /\ [][PoolNext]_poolVars

-----------------------------------------------------------------------------
PoolTypeOK ==
  /\ word \in [Node -> Int]
  /\ flag \in [Node -> {"FREE", "ALLOC"}]
  /\ free_node_ \in Node \cup {-1}
  /\ nalloc_ \in 0 .. Capacity
  /\ owners \in [Address -> Nat]
  /\ avail \in Seq(Node)

(* No node or block is ever in the hands of two callers at once: alloc()   *)
(* never returns an address that is still out (mem_pool.cc:44-57).         *)
ExclusiveOwner == \A a \in Address : owners[a] <= 1

(* The RT_ASSERTs of alloc() and free() never fire for callers that free   *)
(* what they were handed, whatever they wrote into it (mem_pool.cc:49,53,  *)
(* 69): below capacity there is a free node and its flag says so, and      *)
(* every node that is out carries the allocated flag.                      *)
AssertsHold ==
  /\ ~Full => AllocAsserts
  /\ \A n \in Node : owners[n] > 0 => FreeAsserts(n)

(* malloc() is used only when every node of the pool is out, so no node is *)
(* lost from the free list (mem_pool.h:12, "if the pool is full, use       *)
(* system malloc instead").                                                *)
MallocOnlyWhenFull ==
  [][\A b \in Blocks : owners'[b] > owners[b] => \A n \in Node : owners[n] = 1]_poolVars

(* The links stored inside the free nodes spell out avail.                 *)
LinksSpellAvail ==
  /\ free_node_ = (IF Len(avail) = 0 THEN -1 ELSE avail[1])
  /\ \A i \in 1 .. Len(avail) :
        word[avail[i]] = (IF i < Len(avail) THEN avail[i + 1] ELSE -1)

(* avail lists exactly the nodes flagged free, each of them once.          *)
AvailListsFreeNodes ==
  /\ \A i \in 1 .. Len(avail) : flag[avail[i]] = "FREE"
  /\ \A i, j \in 1 .. Len(avail) : avail[i] = avail[j] => i = j
  /\ \A n \in Node : flag[n] = "FREE" => \E i \in 1 .. Len(avail) : avail[i] = n

(* A node has its one owner exactly while it is flagged allocated.         *)
OwnersMatchFlags ==
  /\ \A n \in Node : owners[n] = (IF flag[n] = "ALLOC" THEN 1 ELSE 0)
  /\ \A b \in Blocks : owners[b] <= 1

(* The free list is intact: starting at free_node_, the links written into *)
(* the free nodes visit every node that is not out, exactly once, and end; *)
(* nalloc_ counts the nodes that are out (mem_pool.cc:31-34,51,72-75).     *)
FreeListIntact ==
  /\ Len(avail) = Capacity - nalloc_
  /\ LinksSpellAvail
  /\ AvailListsFreeNodes
  /\ OwnersMatchFlags
=============================================================================
