----------------------------- MODULE CoreProofs -----------------------------
(***************************************************************************)
(* Proofs about the parts of the core library that the gateway is built    *)
(* from: the two allocators, MemPool and ConnectContainer, for every       *)
(* capacity; the event loop, FdPoller, and the thread pipe, Mailbox, for   *)
(* any number of descriptors, reactors and messages.                       *)
(***************************************************************************)
EXTENDS MemPool, ConnectContainer, FdPoller, Mailbox, PollerLemmas,
        FiniteSetTheorems, SequenceTheorems

-----------------------------------------------------------------------------
(***************************************************************************)
(* MemPool: every capacity, every set of malloc blocks and every word an   *)
(* owner may leave in its node.                                            *)
(***************************************************************************)

(* The inductive invariant: the type invariant and the intact free list.   *)
PoolInv == PoolTypeOK /\ FreeListIntact

(* The constructor builds an intact free list (mem_pool.cc:15-35).         *)
LEMMA InitPoolInv == PoolInit => PoolInv
  <1> SUFFICES ASSUME PoolInit PROVE PoolInv
    OBVIOUS
  <1> USE CapacityAssumption, BlocksAssumption, WordsAssumption
  <1>1. /\ avail \in Seq(Node)
        /\ Len(avail) = Capacity
        /\ \A i \in 1 .. Len(avail) : avail[i] = i - 1 /\ avail[i] \in Node
    BY DEF PoolInit, Node
  <1>2. PoolTypeOK
    BY <1>1 DEF PoolInit, InitLink, PoolTypeOK, Node, Address
  <1>3. LinksSpellAvail
    <2>1. 1 \in 1 .. Len(avail) /\ Len(avail) # 0 /\ free_node_ = avail[1]
      BY <1>1 DEF PoolInit
    <2>2. ASSUME NEW i \in 1 .. Len(avail)
          PROVE  word[avail[i]] = (IF i < Len(avail) THEN avail[i + 1] ELSE -1)
      <3>1. i \in 1 .. Capacity /\ avail[i] = i - 1 /\ i - 1 \in Node
        BY <1>1
      <3>2. word[i - 1] = (IF i < Capacity THEN i ELSE -1)
        BY <3>1 DEF PoolInit, InitLink, Node
      <3>3. i < Capacity => avail[i + 1] = i
        BY <1>1
      <3> QED
        BY <1>1, <3>1, <3>2, <3>3
    <2> QED
      BY <2>1, <2>2 DEF LinksSpellAvail
  <1>4. AvailListsFreeNodes
    <2>1. \A n \in Node : n + 1 \in 1 .. Len(avail) /\ avail[n + 1] = n
      BY <1>1 DEF Node
    <2>2. \A n \in Node : \E i \in 1 .. Len(avail) : avail[i] = n
      BY <2>1
    <2>3. \A i, j \in 1 .. Len(avail) : avail[i] = avail[j] => i = j
      BY <1>1
    <2>4. \A i \in 1 .. Len(avail) : flag[avail[i]] = "FREE"
      BY <1>1 DEF PoolInit
    <2> QED
      BY <2>2, <2>3, <2>4 DEF AvailListsFreeNodes
  <1>5. OwnersMatchFlags
    BY DEF PoolInit, OwnersMatchFlags, Address
  <1>6. Len(avail) = Capacity - nalloc_
    BY <1>1 DEF PoolInit
  <1> QED
    BY <1>2, <1>3, <1>4, <1>5, <1>6 DEF PoolInv, FreeListIntact

(* alloc() below capacity takes the first free node and keeps the list     *)
(* intact (mem_pool.cc:49-56).                                             *)
LEMMA AllocNodePoolInv == PoolInv /\ AllocNode => PoolInv'
  <1> SUFFICES ASSUME PoolInv, AllocNode PROVE PoolInv'
    OBVIOUS
  <1> USE CapacityAssumption, BlocksAssumption
  <1> DEFINE p == free_node_
  <1>0. /\ PoolTypeOK /\ LinksSpellAvail /\ AvailListsFreeNodes /\ OwnersMatchFlags
        /\ Len(avail) = Capacity - nalloc_
    BY DEF PoolInv, FreeListIntact
  <1>1. Len(avail) > 0 /\ p = avail[1] /\ p \in Node /\ flag[p] = "FREE"
    BY <1>0 DEF PoolTypeOK, LinksSpellAvail, AllocNode, AllocAsserts, Full, Node
  <1>2. /\ avail' \in Seq(Node)
        /\ Len(avail') = Len(avail) - 1
        /\ \A i \in 1 .. Len(avail') : i + 1 \in 1 .. Len(avail) /\ avail'[i] = avail[i + 1]
    BY <1>0, <1>1 DEF PoolTypeOK, AllocNode
  <1>3. \A i \in 1 .. Len(avail') : avail'[i] \in Node /\ avail'[i] # p
    <2> SUFFICES ASSUME NEW i \in 1 .. Len(avail')
                 PROVE  avail'[i] \in Node /\ avail'[i] # p
      OBVIOUS
    <2>1. avail'[i] \in Node
      BY <1>2
    <2>2. 1 \in 1 .. Len(avail) /\ i + 1 \in 1 .. Len(avail) /\ i + 1 # 1
      BY <1>1, <1>2
    <2> QED
      BY <1>0, <1>1, <1>2, <2>1, <2>2 DEF AvailListsFreeNodes
  <1>4. LinksSpellAvail'
    <2>1. 1 \in 1 .. Len(avail) /\ free_node_' = word[avail[1]] /\ word' = word
      BY <1>1 DEF AllocNode
    <2>2. free_node_' = (IF Len(avail') = 0 THEN -1 ELSE avail'[1])
      BY <1>0, <1>2, <2>1 DEF LinksSpellAvail, PoolTypeOK
    <2>3. \A i \in 1 .. Len(avail') :
             word'[avail'[i]] = (IF i < Len(avail') THEN avail'[i + 1] ELSE -1)
      BY <1>0, <1>2, <2>1 DEF LinksSpellAvail, PoolTypeOK
    <2> QED
      BY <2>2, <2>3 DEF LinksSpellAvail
  <1>5. PoolTypeOK'
    <2>1. free_node_' \in Node \cup {-1}
      BY <1>2, <1>3, <1>4 DEF LinksSpellAvail
    <2>2. nalloc_' \in 0 .. Capacity
      BY <1>0 DEF PoolTypeOK, AllocNode, Full
    <2>3. owners' \in [Address -> Nat] /\ flag' \in [Node -> {"FREE", "ALLOC"}]
      BY <1>0, <1>1 DEF PoolTypeOK, AllocNode, Address
    <2> QED
      BY <1>0, <1>2, <2>1, <2>2, <2>3 DEF PoolTypeOK, AllocNode
  <1>6. AvailListsFreeNodes'
    <2>1. \A i \in 1 .. Len(avail') : flag'[avail'[i]] = "FREE"
      BY <1>0, <1>2, <1>3 DEF PoolTypeOK, AvailListsFreeNodes, AllocNode
    <2>2. \A i, j \in 1 .. Len(avail') : avail'[i] = avail'[j] => i = j
      BY <1>0, <1>2 DEF AvailListsFreeNodes
    <2>3. ASSUME NEW n \in Node, flag'[n] = "FREE"
          PROVE  \E i \in 1 .. Len(avail') : avail'[i] = n
      <3>1. n # p /\ flag[n] = "FREE"
        BY <1>0, <1>1, <2>3 DEF PoolTypeOK, AllocNode
      <3>2. PICK j \in 1 .. Len(avail) : avail[j] = n
        BY <1>0, <3>1 DEF AvailListsFreeNodes
      <3>3. j # 1 /\ j \in Int /\ Len(avail) \in Nat
        BY <1>0, <1>1, <3>1, <3>2 DEF PoolTypeOK
      <3>4. j - 1 \in 1 .. Len(avail')
        BY <1>2, <3>2, <3>3
      <3>5. avail'[j - 1] = n
        BY <1>2, <3>2, <3>3, <3>4
      <3> QED
        BY <3>4, <3>5
    <2> QED
      BY <2>1, <2>2, <2>3 DEF AvailListsFreeNodes
  <1>7. OwnersMatchFlags'
    <2>1. p \notin Blocks /\ p \in Address
      BY <1>1 DEF Node, Address
    <2>2. \A a \in Address : owners'[a] = IF a = p THEN owners[a] + 1 ELSE owners[a]
      BY <1>0, <2>1 DEF PoolTypeOK, AllocNode
    <2>3. \A n \in Node : flag'[n] = IF n = p THEN "ALLOC" ELSE flag[n]
      BY <1>0, <1>1 DEF PoolTypeOK, AllocNode
    <2>4. \A n \in Node : owners'[n] = (IF flag'[n] = "ALLOC" THEN 1 ELSE 0)
      BY <1>0, <1>1, <2>2, <2>3 DEF OwnersMatchFlags, Address
    <2>5. \A b \in Blocks : owners'[b] <= 1
      BY <1>0, <2>1, <2>2 DEF OwnersMatchFlags, Address
    <2> QED
      BY <2>4, <2>5 DEF OwnersMatchFlags
  <1>8. Len(avail') = Capacity - nalloc_'
    BY <1>0, <1>2 DEF PoolTypeOK, AllocNode
  <1> QED
    BY <1>4, <1>5, <1>6, <1>7, <1>8 DEF PoolInv, FreeListIntact

(* free() of a pool node puts it in front of the list (mem_pool.cc:69-75). *)
LEMMA FreeNodePoolInv == ASSUME NEW p \in Node PROVE PoolInv /\ FreeNode(p) => PoolInv'
  <1> SUFFICES ASSUME PoolInv, FreeNode(p) PROVE PoolInv'
    OBVIOUS
  <1> USE CapacityAssumption, BlocksAssumption
  <1>0. /\ PoolTypeOK /\ LinksSpellAvail /\ AvailListsFreeNodes /\ OwnersMatchFlags
        /\ Len(avail) = Capacity - nalloc_
    BY DEF PoolInv, FreeListIntact
  <1>1. /\ flag[p] = "ALLOC" /\ owners[p] = 1
        /\ \A i \in 1 .. Len(avail) : avail[i] \in Node /\ avail[i] # p
    BY <1>0 DEF PoolTypeOK, AvailListsFreeNodes, OwnersMatchFlags, FreeNode, FreeAsserts
  <1>2. /\ avail' \in Seq(Node)
        /\ Len(avail') = Len(avail) + 1
        /\ avail'[1] = p
        /\ \A i \in 2 .. Len(avail') : i - 1 \in 1 .. Len(avail) /\ avail'[i] = avail[i - 1]
    BY <1>0 DEF PoolTypeOK, FreeNode
  <1>3. nalloc_ > 0
    <2> SUFFICES ASSUME nalloc_ = 0 PROVE FALSE
      BY <1>0 DEF PoolTypeOK
    <2> DEFINE f == [i \in 1 .. Capacity |-> avail[i]]
    <2>1. Len(avail) = Capacity
      BY <1>0
    <2>2. f \in [1 .. Capacity -> Node \ {p}]
      BY <1>1, <2>1
    <2>3. IsFiniteSet(1 .. Capacity) /\ Cardinality(1 .. Capacity) = Capacity
      BY FS_Interval
    <2>4. IsFiniteSet(Node) /\ Cardinality(Node) = Capacity
      <3> HIDE DEF f
      <3> QED
        BY FS_Interval DEF Node
    <2>5. IsFiniteSet(Node \ {p}) /\ Cardinality(Node \ {p}) = Capacity - 1
      BY <2>4, FS_RemoveElement
    <2>6. \E i, j \in 1 .. Capacity : i # j /\ f[i] = f[j]
      <3> HIDE DEF f
      <3> QED
        BY <2>2, <2>3, <2>5, FS_PigeonHole
    <2> QED
      BY <1>0, <2>1, <2>6 DEF AvailListsFreeNodes
  <1>4. \A n \in Node : word'[n] = IF n = p THEN free_node_ ELSE word[n]
    BY <1>0 DEF PoolTypeOK, FreeNode, Relink
  <1>5. \A n \in Node : flag'[n] = IF n = p THEN "FREE" ELSE flag[n]
    BY <1>0 DEF PoolTypeOK, FreeNode
  <1>6. LinksSpellAvail'
    <2>1. Len(avail) \in Nat /\ free_node_' = avail'[1] /\ Len(avail') # 0
      BY <1>0, <1>2 DEF PoolTypeOK, FreeNode
    <2>2. ASSUME NEW i \in 1 .. Len(avail')
          PROVE  word'[avail'[i]] = (IF i < Len(avail') THEN avail'[i + 1] ELSE -1)
      <3>1. CASE i = 1
        <4>1. word'[avail'[i]] = free_node_
          BY <1>2, <1>4, <3>1
        <4>2. Len(avail) # 0 => avail'[2] = avail[1]
          BY <1>2, <2>1
        <4> QED
          BY <1>0, <1>2, <2>1, <3>1, <4>1, <4>2 DEF LinksSpellAvail
      <3>2. CASE i # 1
        <4>1. i - 1 \in 1 .. Len(avail) /\ avail'[i] = avail[i - 1]
          BY <1>2, <2>1, <3>2
        <4>2. word'[avail'[i]] = word[avail[i - 1]]
          BY <1>1, <1>4, <4>1
        <4>3. i < Len(avail') => avail'[i + 1] = avail[i]
          BY <1>2, <2>1
        <4> QED
          BY <1>0, <1>2, <2>1, <4>1, <4>2, <4>3 DEF LinksSpellAvail
      <3> QED
        BY <3>1, <3>2
    <2> QED
      BY <2>1, <2>2 DEF LinksSpellAvail
  <1>7. PoolTypeOK'
    <2>1. nalloc_' \in 0 .. Capacity
      BY <1>0, <1>3 DEF PoolTypeOK, FreeNode
    <2>2. owners' \in [Address -> Nat]
      BY <1>0, <1>1 DEF PoolTypeOK, FreeNode, Address
    <2>3. word' \in [Node -> Int]
      BY <1>0 DEF PoolTypeOK, FreeNode, Relink, Node
    <2> QED
      BY <1>0, <1>2, <2>1, <2>2, <2>3 DEF PoolTypeOK, FreeNode
  <1>8. AvailListsFreeNodes'
    <2>1. \A i \in 1 .. Len(avail') : i = 1 \/ i \in 2 .. Len(avail')
      BY <1>0, <1>2 DEF PoolTypeOK
    <2>2. \A i \in 1 .. Len(avail') : flag'[avail'[i]] = "FREE"
      BY <1>0, <1>1, <1>2, <1>5, <2>1 DEF AvailListsFreeNodes
    <2>3. ASSUME NEW i \in 1 .. Len(avail'), NEW j \in 1 .. Len(avail'), avail'[i] = avail'[j]
          PROVE  i = j
      BY <1>0, <1>1, <1>2, <2>1, <2>3 DEF AvailListsFreeNodes
    <2>4. ASSUME NEW n \in Node, flag'[n] = "FREE"
          PROVE  \E i \in 1 .. Len(avail') : avail'[i] = n
      <3>1. CASE n = p
        <4>1. 1 \in 1 .. Len(avail') /\ avail'[1] = n
          BY <1>0, <1>2, <3>1 DEF PoolTypeOK
        <4> QED
          BY <4>1
      <3>2. CASE n # p
        <4>1. PICK j \in 1 .. Len(avail) : avail[j] = n
          BY <1>0, <1>5, <2>4, <3>2 DEF AvailListsFreeNodes
        <4>2. j + 1 \in 2 .. Len(avail') /\ j + 1 \in 1 .. Len(avail') /\ (j + 1) - 1 = j
          BY <1>0, <1>2, <4>1 DEF PoolTypeOK
        <4>3. avail'[j + 1] = n
          BY <1>2, <4>1, <4>2
        <4> QED
          BY <4>2, <4>3
      <3> QED
        BY <3>1, <3>2
    <2> QED
      BY <2>2, <2>3, <2>4 DEF AvailListsFreeNodes
  <1>9. OwnersMatchFlags'
    <2>1. p \notin Blocks /\ p \in Address
      BY DEF Node, Address
    <2>2. \A a \in Address : owners'[a] = IF a = p THEN owners[a] - 1 ELSE owners[a]
      BY <1>0, <2>1 DEF PoolTypeOK, FreeNode
    <2>3. \A n \in Node : owners'[n] = (IF flag'[n] = "ALLOC" THEN 1 ELSE 0)
      BY <1>0, <1>1, <1>5, <2>2 DEF OwnersMatchFlags, Address
    <2>4. \A b \in Blocks : owners'[b] <= 1
      BY <1>0, <2>1, <2>2 DEF OwnersMatchFlags, Address
    <2> QED
      BY <2>3, <2>4 DEF OwnersMatchFlags
  <1>10. Len(avail') = Capacity - nalloc_'
    BY <1>0, <1>2 DEF PoolTypeOK, FreeNode
  <1> QED
    BY <1>6, <1>7, <1>8, <1>9, <1>10 DEF PoolInv, FreeListIntact

(* Blocks from malloc() never touch the pool (mem_pool.cc:47,64-67).       *)
LEMMA MallocPoolInv ==
  ASSUME NEW b \in Blocks PROVE PoolInv /\ (AllocMalloc(b) \/ FreeMalloc(b)) => PoolInv'
  <1> SUFFICES ASSUME PoolInv, AllocMalloc(b) \/ FreeMalloc(b) PROVE PoolInv'
    OBVIOUS
  <1>0. /\ PoolTypeOK /\ LinksSpellAvail /\ AvailListsFreeNodes /\ OwnersMatchFlags
        /\ Len(avail) = Capacity - nalloc_
    BY DEF PoolInv, FreeListIntact
  <1>1. UNCHANGED <<word, flag, free_node_, nalloc_, avail>>
    BY DEF AllocMalloc, FreeMalloc
  <1>2. b \notin Node /\ b \in Address
    BY CapacityAssumption, BlocksAssumption DEF Node, Address
  <1>3. owners' \in [Address -> Nat] /\ owners'[b] <= 1
    <2>1. owners \in [Address -> Nat] /\ owners[b] \in Nat /\ owners[b] <= 1
      BY <1>0, <1>2 DEF PoolTypeOK, OwnersMatchFlags
    <2>2. CASE AllocMalloc(b)
      BY <1>2, <2>1, <2>2 DEF AllocMalloc
    <2>3. CASE FreeMalloc(b)
      BY <1>2, <2>1, <2>3 DEF FreeMalloc
    <2> QED
      BY <2>2, <2>3
  <1>4. \A a \in Address : a # b => owners'[a] = owners[a]
    BY <1>0, <1>2 DEF PoolTypeOK, AllocMalloc, FreeMalloc
  <1>5. PoolTypeOK'
    BY <1>0, <1>1, <1>3 DEF PoolTypeOK
  <1>6. LinksSpellAvail' /\ AvailListsFreeNodes' /\ Len(avail') = Capacity - nalloc_'
    BY <1>0, <1>1 DEF LinksSpellAvail, AvailListsFreeNodes
  <1>7. OwnersMatchFlags'
    BY <1>0, <1>1, <1>2, <1>3, <1>4 DEF OwnersMatchFlags, Address
  <1> QED
    BY <1>5, <1>6, <1>7 DEF PoolInv, FreeListIntact

(* An owner that overwrites its node never reaches a link, because no node *)
(* it holds is on the free list.                                           *)
LEMMA UserWritePoolInv ==
  ASSUME NEW n \in Node, NEW v \in Words PROVE PoolInv /\ UserWrite(n, v) => PoolInv'
  <1> SUFFICES ASSUME PoolInv, UserWrite(n, v) PROVE PoolInv'
    OBVIOUS
  <1>0. /\ PoolTypeOK /\ LinksSpellAvail /\ AvailListsFreeNodes /\ OwnersMatchFlags
        /\ Len(avail) = Capacity - nalloc_
    BY DEF PoolInv, FreeListIntact
  <1>1. UNCHANGED <<flag, free_node_, nalloc_, owners, avail>>
    BY DEF UserWrite
  <1>2. flag[n] = "ALLOC"
    BY <1>0 DEF PoolTypeOK, OwnersMatchFlags, UserWrite
  <1>3. \A i \in 1 .. Len(avail) : avail[i] \in Node /\ avail[i] # n
    BY <1>0, <1>2 DEF PoolTypeOK, AvailListsFreeNodes
  <1>4. /\ word' \in [Node -> Int]
        /\ \A m \in Node : m # n => word'[m] = word[m]
    BY <1>0, WordsAssumption DEF PoolTypeOK, UserWrite
  <1>5. /\ PoolTypeOK' /\ AvailListsFreeNodes' /\ OwnersMatchFlags'
        /\ Len(avail') = Capacity - nalloc_'
    BY <1>0, <1>1, <1>4 DEF PoolTypeOK, AvailListsFreeNodes, OwnersMatchFlags
  <1>6. LinksSpellAvail'
    BY <1>0, <1>1, <1>3, <1>4 DEF LinksSpellAvail
  <1> QED
    BY <1>5, <1>6 DEF PoolInv, FreeListIntact

(* Every step of the pool or of its users keeps the inductive invariant.   *)
LEMMA NextPoolInv == PoolInv /\ [PoolNext]_poolVars => PoolInv'
  <1> SUFFICES ASSUME PoolInv, [PoolNext]_poolVars PROVE PoolInv'
    OBVIOUS
  <1>1. CASE AllocNode
    BY <1>1, AllocNodePoolInv
  <1>2. ASSUME NEW b \in Blocks, AllocMalloc(b) \/ FreeMalloc(b) PROVE PoolInv'
    BY <1>2, MallocPoolInv
  <1>3. ASSUME NEW n \in Node, FreeNode(n) PROVE PoolInv'
    BY <1>3, FreeNodePoolInv
  <1>4. ASSUME NEW n \in Node, NEW v \in Words, UserWrite(n, v) PROVE PoolInv'
    BY <1>4, UserWritePoolInv
  <1>5. CASE UNCHANGED poolVars
    BY <1>5 DEF PoolInv, PoolTypeOK, FreeListIntact, LinksSpellAvail, AvailListsFreeNodes,
                OwnersMatchFlags, poolVars
  <1> QED
    BY <1>1, <1>2, <1>3, <1>4, <1>5 DEF PoolNext

(* The free list stays intact for ever, whatever the owners of the nodes   *)
(* write into them (mem_pool.cc:44-76).                                    *)
THEOREM FreeListSafe == PoolSpec => [](PoolTypeOK /\ FreeListIntact)
  <1>1. PoolInv => PoolTypeOK /\ FreeListIntact
    BY DEF PoolInv
  <1> QED
    BY <1>1, InitPoolInv, NextPoolInv, PTL DEF PoolSpec

(* alloc() never hands out an address that is still out                    *)
(* (mem_pool.cc:44-57).                                                    *)
THEOREM ExclusiveOwnerSafe == PoolSpec => []ExclusiveOwner
  <1>1. PoolInv => ExclusiveOwner
    BY DEF PoolInv, FreeListIntact, OwnersMatchFlags, ExclusiveOwner, Address
  <1> QED
    BY <1>1, InitPoolInv, NextPoolInv, PTL DEF PoolSpec

(* No RT_ASSERT of alloc() or free() ever fires (mem_pool.cc:49,53,69).    *)
THEOREM AssertsSafe == PoolSpec => []AssertsHold
  <1>1. PoolInv => AssertsHold
    <2> SUFFICES ASSUME PoolInv PROVE AssertsHold
      OBVIOUS
    <2>1. ASSUME ~Full PROVE AllocAsserts
      <3>1. 1 \in 1 .. Len(avail) /\ free_node_ = avail[1] /\ avail[1] \in Node
        BY <2>1, CapacityAssumption DEF PoolInv, PoolTypeOK, FreeListIntact, LinksSpellAvail, Full
      <3> QED
        BY <3>1, CapacityAssumption
        DEF PoolInv, FreeListIntact, AvailListsFreeNodes, AllocAsserts, Node
    <2>2. \A n \in Node : owners[n] > 0 => FreeAsserts(n)
      BY DEF PoolInv, PoolTypeOK, FreeListIntact, OwnersMatchFlags, FreeAsserts
    <2> QED
      BY <2>1, <2>2 DEF AssertsHold
  <1> QED
    BY <1>1, InitPoolInv, NextPoolInv, PTL DEF PoolSpec

(* malloc() is asked only while every node of the pool is out              *)
(* (mem_pool.h:12).                                                        *)
THEOREM MallocOnlyWhenFullSafe == PoolSpec => MallocOnlyWhenFull
  <1> DEFINE A == \A b \in Blocks : owners'[b] > owners[b] => \A n \in Node : owners[n] = 1
  <1>1. PoolInv /\ [PoolNext]_poolVars => A
    <2> SUFFICES ASSUME PoolInv, [PoolNext]_poolVars, NEW b \in Blocks, owners'[b] > owners[b],
                        NEW n \in Node
                 PROVE  owners[n] = 1
      OBVIOUS
    <2>1. b \notin Node /\ b \in Address /\ owners \in [Address -> Nat]
      BY CapacityAssumption, BlocksAssumption DEF PoolInv, PoolTypeOK, Node, Address
    <2>2. \E c \in Blocks : AllocMalloc(c)
      <3>1. CASE AllocNode
        <4>1. free_node_ \in Node /\ free_node_ # b
          BY <2>1, <3>1 DEF AllocNode, AllocAsserts, PoolInv, PoolTypeOK
        <4> QED
          BY <2>1, <3>1, <4>1 DEF AllocNode
      <3>2. ASSUME NEW c \in Blocks, FreeMalloc(c) PROVE FALSE
        BY <2>1, <3>2 DEF FreeMalloc
      <3>3. ASSUME NEW m \in Node, FreeNode(m) PROVE FALSE
        BY <2>1, <3>3 DEF FreeNode
      <3>4. ASSUME NEW m \in Node, NEW v \in Words, UserWrite(m, v) PROVE FALSE
        BY <2>1, <3>4 DEF UserWrite
      <3>5. CASE UNCHANGED poolVars
        BY <2>1, <3>5 DEF poolVars
      <3> QED
        BY <3>1, <3>2, <3>3, <3>4, <3>5 DEF PoolNext
    <2>3. Len(avail) = 0
      BY <2>2, CapacityAssumption DEF AllocMalloc, Full, PoolInv, PoolTypeOK, FreeListIntact
    <2>4. flag[n] = "ALLOC"
      BY <2>3 DEF PoolInv, PoolTypeOK, FreeListIntact, AvailListsFreeNodes
    <2> QED
      BY <2>4 DEF PoolInv, FreeListIntact, OwnersMatchFlags
  <1>2. PoolInv /\ [PoolNext]_poolVars => [A]_poolVars
    BY <1>1
  <1>3. PoolSpec => [][A]_poolVars
    <2> HIDE DEF A
    <2> QED
      BY <1>2, InitPoolInv, NextPoolInv, PTL DEF PoolSpec
  <1> QED
    BY <1>3 DEF MallocOnlyWhenFull

-----------------------------------------------------------------------------
(***************************************************************************)
(* ConnectContainer: the free stack is exact.  The list fields next_,      *)
(* prev_ and head_ only need their type: they take no part in allocation.  *)
(***************************************************************************)

(* The indices of the free stack that hold free objects.                   *)
Above == {i \in Vfd : i >= container.stack_top_}

(* FreeStackExact with what keeps it inductive: the stack pointer counts   *)
(* the objects out, and an object is ACTIVE exactly while it is held.      *)
StackInv ==
  /\ container.count_ = container.stack_top_
  /\ \A v \in Vfd : v \in held <=> container.status_[v] = "ACTIVE"

ContainerInv == ContainerTypeOK /\ FreeStackExact /\ StackInv

(* FreeStackExact, split into the two facts the proofs use.                *)
StackInjective ==
  \A i, j \in Above : container.free_stack_[i] = container.free_stack_[j] => i = j
StackComplete ==
  \A v \in Vfd : v \notin held <=> \E i \in Above : container.free_stack_[i] = v

(* FreeStackExact says that the stack is injective and complete.           *)
LEMMA ExactParts ==
  /\ FreeStackExact <=> StackInjective /\ StackComplete
  /\ FreeStackExact' <=> StackInjective' /\ StackComplete'
BY DEF FreeStackExact, StackInjective, StackComplete, Above

(* The constructor (connect.cc:87-105) establishes the invariant.          *)
LEMMA InitContainerInv == ContainerInit => ContainerInv
<1> SUFFICES ASSUME ContainerInit PROVE ContainerInv
  OBVIOUS
<1>1. ContainerTypeOK
  BY ConnCapacityAssumption
  DEF ContainerInit, ContainerTypeOK, Container, EmptyContainer, InitStack, Vfd, NoConn, ConnStatus
<1>2. StackInjective
  BY DEF ContainerInit, EmptyContainer, InitStack, StackInjective, Above
<1>3. StackComplete
  BY ConnCapacityAssumption DEF ContainerInit, EmptyContainer, InitStack, StackComplete, Above, Vfd
<1>4. StackInv
  BY DEF ContainerInit, EmptyContainer, StackInv
<1> QED
  BY <1>1, <1>2, <1>3, <1>4, ExactParts DEF ContainerInv

(* A successful alloc_connect (connect.cc:112-133) preserves it.           *)
LEMMA AllocContainerInv ==
  ASSUME ContainerInv, NEW fd \in ConnFds, Alloc(fd)
  PROVE  ContainerInv'
<1> DEFINE c == container
           v == AllocVfd(c)
           top == c.stack_top_
<1>1. /\ c \in Container /\ held \subseteq Vfd
      /\ StackInjective /\ StackComplete /\ StackInv
  BY ExactParts DEF ContainerInv, ContainerTypeOK
<1>2. top \in 0 .. ConnCapacity /\ c.count_ = top
  BY <1>1 DEF Container, StackInv
<1>3. top \in Vfd /\ top + 1 \in 0 .. ConnCapacity /\ v = c.free_stack_[top] /\ v \in Vfd
  <2>1. v >= 0
    BY DEF Alloc
  <2>2. ~ContainerFull(c) /\ v = c.free_stack_[top]
    <3>1. v # AX_RET_FULL /\ v # AX_RET_ERROR
      BY <2>1 DEF AX_RET_FULL, AX_RET_ERROR
    <3> QED BY <3>1 DEF AllocVfd
  <2>3. top < ConnCapacity
    BY <1>2, <2>2, ConnCapacityAssumption DEF ContainerFull
  <2>4. top \in Vfd /\ top + 1 \in 0 .. ConnCapacity
    BY <1>2, <2>3, ConnCapacityAssumption DEF Vfd
  <2>5. v \in Vfd
    BY <1>1, <2>2, <2>4 DEF Container
  <2> QED BY <2>2, <2>4, <2>5
<1>4. top \in Above
  BY <1>2, <1>3 DEF Above, Vfd
<1> HIDE DEF v
<1>5. /\ container' = [alloc_connect(c, v, fd) EXCEPT !.status_[v] = "ACTIVE"]
      /\ held' = held \cup {v}
  BY DEF Alloc, v
<1>6. fd \in Int /\ c.head_ \in Vfd \cup {NoConn} /\ NoConn \notin Vfd
  BY <1>1, ConnFdsAssumption DEF Container, NoConn, Vfd
<1>7. /\ container'.free_stack_ = c.free_stack_
      /\ container'.stack_top_ = top + 1
      /\ container'.count_ = top + 1
      /\ container'.status_ = [c.status_ EXCEPT ![v] = "ACTIVE"]
  BY <1>1, <1>2, <1>3, <1>5 DEF alloc_connect, Container
<1>8. ContainerTypeOK'
  BY <1>1, <1>2, <1>3, <1>5, <1>6 DEF ContainerTypeOK, Container, alloc_connect, ConnStatus
<1>9. Above' = Above \ {top}
  BY <1>2, <1>7, ConnCapacityAssumption DEF Above, Vfd
<1>10. StackInjective'
  BY <1>1, <1>7, <1>9 DEF StackInjective
<1>11. StackComplete'
  BY <1>1, <1>3, <1>4, <1>5, <1>7, <1>9 DEF StackComplete, StackInjective
<1>12. StackInv'
  BY <1>1, <1>3, <1>5, <1>7 DEF StackInv, Container
<1> QED
  BY <1>8, <1>10, <1>11, <1>12, ExactParts DEF ContainerInv

(* free_connect of a held object (connect.cc:135-151) preserves it.        *)
LEMMA FreeContainerInv ==
  ASSUME ContainerInv, NEW v \in Vfd, Free(v)
  PROVE  ContainerInv'
<1> DEFINE c == container
           top == c.stack_top_
<1>1. /\ c \in Container /\ held \subseteq Vfd
      /\ StackInjective /\ StackComplete /\ StackInv
  BY ExactParts DEF ContainerInv, ContainerTypeOK
<1>2. /\ top \in 1 .. ConnCapacity /\ c.count_ = top
      /\ top - 1 \in Vfd /\ top - 1 \in 0 .. ConnCapacity
  <2>1. top \in 0 .. ConnCapacity /\ c.count_ = top /\ top > 0
    BY <1>1 DEF Container, StackInv, Free, FreeAllowed
  <2> HIDE DEF top
  <2> QED BY <2>1, ConnCapacityAssumption DEF Vfd
<1>3. container' = free_connect(c, v) /\ held' = held \ {v} /\ v \in held
  BY DEF Free
<1>4. /\ container'.free_stack_ = [c.free_stack_ EXCEPT ![top - 1] = v]
      /\ container'.stack_top_ = top - 1
      /\ container'.count_ = top - 1
      /\ container'.status_ = [c.status_ EXCEPT ![v] = "EMPTY"]
  BY <1>1, <1>2, <1>3 DEF free_connect, PushFree, Container
<1>5. ContainerTypeOK'
  BY <1>1, <1>2, <1>3 DEF ContainerTypeOK, Container, free_connect, PushFree, ConnStatus
<1>6. Above' = Above \cup {top - 1} /\ top - 1 \notin Above
  BY <1>2, <1>4, ConnCapacityAssumption DEF Above, Vfd
<1>7. \A i \in Above : c.free_stack_[i] # v
  BY <1>1, <1>3 DEF StackComplete
<1>8. /\ container'.free_stack_[top - 1] = v
      /\ \A i \in Above : container'.free_stack_[i] = c.free_stack_[i]
  BY <1>1, <1>2, <1>4, <1>6 DEF Container, Above
<1>9. StackInjective'
  BY <1>1, <1>6, <1>7, <1>8 DEF StackInjective
<1>10. StackComplete'
  BY <1>1, <1>3, <1>6, <1>7, <1>8 DEF StackComplete
<1>11. StackInv'
  BY <1>1, <1>3, <1>4 DEF StackInv, Container
<1> QED
  BY <1>5, <1>9, <1>10, <1>11, ExactParts DEF ContainerInv

(* The inductive invariant holds in every reachable state.                 *)
LEMMA ContainerInvAlways == ContainerSpec => []ContainerInv
<1>1. ContainerInv /\ [ContainerNext]_containerVars => ContainerInv'
  <2> SUFFICES ASSUME ContainerInv, [ContainerNext]_containerVars PROVE ContainerInv'
    OBVIOUS
  <2>1. CASE UNCHANGED containerVars
    BY <2>1 DEF containerVars, ContainerInv, ContainerTypeOK, FreeStackExact, StackInv
  <2> QED
    BY <2>1, AllocContainerInv, FreeContainerInv DEF ContainerNext
<1> QED
  BY <1>1, InitContainerInv, PTL DEF ContainerSpec

(* No object of the container is ever both handed out and free, and none   *)
(* is lost, whatever the order of alloc_connect and free_connect           *)
(* (connect.cc:112-151).                                                   *)
THEOREM FreeStackSafe == ContainerSpec => [](ContainerTypeOK /\ FreeStackExact)
<1>1. ContainerInv => ContainerTypeOK /\ FreeStackExact
  BY DEF ContainerInv
<1> QED BY <1>1, ContainerInvAlways, PTL

(* alloc_connect fails exactly when every object is out, and the RT_ASSERT *)
(* of free_connect (connect.cc:139) cannot fire for a held object: with    *)
(* stack_top_ at 0 the stack would map the objects one to one onto fewer.  *)
THEOREM AllocSafe == ContainerSpec => []AllocFailsOnlyWhenFull
<1>1. ContainerInv => AllocFailsOnlyWhenFull
  <2> SUFFICES ASSUME ContainerInv PROVE AllocFailsOnlyWhenFull
    OBVIOUS
  <2> DEFINE c == container
             top == c.stack_top_
  <2>1. /\ c \in Container /\ held \subseteq Vfd
        /\ StackInjective /\ StackComplete /\ StackInv
    BY ExactParts DEF ContainerInv, ContainerTypeOK
  <2>2. top \in 0 .. ConnCapacity /\ c.count_ = top
    BY <2>1 DEF Container, StackInv
  <2>3. CASE top = ConnCapacity
    <3>1. held = Vfd
      <4>1. Above = {}
        BY <2>3, ConnCapacityAssumption DEF Above, Vfd
      <4> QED BY <2>1, <4>1 DEF StackComplete
    <3>2. AllocVfd(c) < 0 /\ FreeAllowed(c)
      BY <2>2, <2>3, ConnCapacityAssumption
      DEF AllocVfd, ContainerFull, AX_RET_FULL, FreeAllowed
    <3> QED BY <3>1, <3>2 DEF AllocFailsOnlyWhenFull
  <2>4. CASE top < ConnCapacity
    <3>1. top \in Vfd /\ top \in Above /\ c.free_stack_[top] \in Vfd
      <4>1. top \in Vfd
        BY <2>2, <2>4, ConnCapacityAssumption DEF Vfd
      <4>2. top \in Above
        BY <2>2, <4>1 DEF Above
      <4> QED BY <2>1, <4>1, <4>2 DEF Container
    <3>2. c.free_stack_[top] \notin held
      BY <2>1, <3>1 DEF StackComplete
    <3>3. c.status_[c.free_stack_[top]] = "EMPTY"
      BY <2>1, <3>1, <3>2 DEF StackInv, Container, ConnStatus
    <3>4. AllocVfd(c) \in Vfd
      <4>1. ~ContainerFull(c)
        BY <2>2, <2>4, ConnCapacityAssumption DEF ContainerFull
      <4> QED BY <3>1, <3>3, <4>1 DEF AllocVfd
    <3>5. ~(AllocVfd(c) < 0) /\ held # Vfd
      <4>1. \A w \in Vfd : ~(w < 0)
        BY ConnCapacityAssumption DEF Vfd
      <4> QED BY <3>1, <3>2, <3>4, <4>1
    <3>6. ASSUME held # {}, top = 0  PROVE FALSE
      <4>1. PICK w \in held : TRUE
        BY <3>6
      <4> DEFINE f == c.free_stack_
                 T == Vfd \ {w}
      <4>2. Above = Vfd
        BY <3>6 DEF Above, Vfd
      <4>3. f \in [Vfd -> T]
        BY <2>1, <4>1, <4>2 DEF StackComplete, Container
      <4>4. IsFiniteSet(Vfd) /\ Cardinality(Vfd) = ConnCapacity
        BY ConnCapacityAssumption, FS_Interval DEF Vfd
      <4>5. IsFiniteSet(T) /\ Cardinality(T) = ConnCapacity - 1
        BY <2>1, <4>1, <4>4, FS_RemoveElement
      <4>6. \E i, j \in Vfd : i # j /\ f[i] = f[j]
        <5> HIDE DEF f, T
        <5>1. Cardinality(T) < Cardinality(Vfd)
          BY <4>4, <4>5, ConnCapacityAssumption
        <5> QED BY <4>3, <4>4, <4>5, <5>1, FS_PigeonHole
      <4> QED BY <2>1, <4>2, <4>6 DEF StackInjective
    <3>7. held # {} => FreeAllowed(c)
      BY <2>2, <3>6 DEF FreeAllowed
    <3> QED BY <3>5, <3>7 DEF AllocFailsOnlyWhenFull
  <2> QED BY <2>2, <2>3, <2>4, ConnCapacityAssumption
<1> QED BY <1>1, ContainerInvAlways, PTL

-----------------------------------------------------------------------------
(***************************************************************************)
(* FdPoller: the event loop never dispatches through a NULL reactor.  The  *)
(* inductive invariant is the conjunction of the invariants FdPoller       *)
(* states; PollerLemmas says that each poller operation preserves the part *)
(* of it about the poller.                                                 *)
(***************************************************************************)

PollerInv == PollerTypeOK /\ ActiveHasReactor /\ RegisteredIsActive /\ NoNullDispatch

(* The observer part of TypeOK.                                            *)
RestOK ==
  /\ open \subseteq Fd
  /\ events \subseteq Fd
  /\ phase \in {"idle", "dispatch"}
  /\ crashed \in BOOLEAN

(* PollerInv is PollerOK of the poller, the type of the rest, and no crash.     *)
LEMMA PollerInvParts ==
  /\ PollerInv <=> PollerOK(poller) /\ RestOK /\ ~crashed
  /\ PollerInv' <=> PollerOK(poller') /\ RestOK' /\ ~crashed'
BY DEF PollerInv, PollerOK, RestOK, PollerTypeOK, ActiveHasReactor, RegisteredIsActive, NoNullDispatch

(* The empty poller of the constructor satisfies PollerInv.                     *)
LEMMA InitPollerInv == PollerInit => PollerInv
<1> SUFFICES ASSUME PollerInit PROVE PollerOK(poller) /\ RestOK /\ ~crashed
  BY PollerInvParts
<1>1. PollerOK(poller)
  BY EmptyPollerOK DEF PollerInit
<1>2. RestOK /\ ~crashed
  BY OwnersAssumption DEF PollerInit, RestOK
<1> QED
  BY <1>1, <1>2

(* One iteration of the do_poll loop preserves PollerInv: the status test comes *)
(* before the call, and an ACTIVE entry has a reactor (epoll.cc:98-112).   *)
LEMMA DispatchPollerInv ==
  ASSUME PollerInv, NEW fd \in Fd, Dispatch(fd)
  PROVE  PollerInv'
<1>1. PollerOK(poller) /\ RestOK /\ ~crashed
  BY PollerInvParts
<1>2. PollerOK(poller')
  BY <1>1, DelEventOK DEF Dispatch
<1>3. RestOK'
  BY <1>1 DEF Dispatch, RestOK
<1>4. ~crashed'
  <2>1. CASE Dispatchable(fd)
    <3>1. poller.reactor[fd] # NoReactor
      BY <1>1, <2>1 DEF Dispatchable, PollerOK
    <3> QED BY <1>1, <2>1, <3>1 DEF Dispatch
  <2>2. CASE ~Dispatchable(fd)
    BY <1>1, <2>2 DEF Dispatch
  <2> QED BY <2>1, <2>2
<1> QED
  BY <1>2, <1>3, <1>4, PollerInvParts

(* Every step preserves PollerInv.                                              *)
LEMMA NextPollerInv == PollerInv /\ [PollerNext]_pollerVars => PollerInv'
<1> SUFFICES ASSUME PollerInv, [PollerNext]_pollerVars PROVE PollerInv'
  OBVIOUS
<1> USE PollerInvParts
<1>0. PollerOK(poller) /\ RestOK /\ ~crashed
  OBVIOUS
<1>1. ASSUME NEW fd \in Fd, NEW r \in Reactor, AddFd(fd, r)  PROVE PollerInv'
  <2>1. PollerOK(poller')
    BY <1>0, <1>1, AddFdOK DEF AddFd
  <2>2. RestOK' /\ ~crashed'
    BY <1>0, <1>1 DEF AddFd, RestOK
  <2> QED BY <2>1, <2>2
<1>2. ASSUME NEW fd \in Fd, WaitClose(fd)  PROVE PollerInv'
  <2>1. PollerOK(poller')
    BY <1>0, <1>2, WaitCloseOK DEF WaitClose
  <2>2. RestOK' /\ ~crashed'
    BY <1>0, <1>2 DEF WaitClose, RestOK
  <2> QED BY <2>1, <2>2
<1>3. ASSUME NEW fd \in Fd, CloseFd(fd)  PROVE PollerInv'
  <2>1. PollerOK(poller')
    BY <1>0, <1>3, CloseFdOK, MaxFdsAssumption DEF CloseFd, Fd
  <2>2. RestOK' /\ ~crashed'
    BY <1>0, <1>3 DEF CloseFd, RestOK
  <2> QED BY <2>1, <2>2
<1>4. ASSUME NEW fd \in Fd, NEW r \in Reactor, SetReactor(fd, r)  PROVE PollerInv'
  <2>1. PollerOK(poller')
    BY <1>0, <1>4, SetReactorOK DEF SetReactor
  <2>2. RestOK' /\ ~crashed'
    BY <1>0, <1>4 DEF SetReactor, RestOK
  <2> QED BY <2>1, <2>2
<1>5. ASSUME NEW fd \in Fd, NEW ev \in {"IN", "OUT"}, AddEvent(fd, ev)  PROVE PollerInv'
  <2>1. PollerOK(poller')
    BY <1>0, <1>5, AddEventOK DEF AddEvent
  <2>2. RestOK' /\ ~crashed'
    BY <1>0, <1>5 DEF AddEvent, RestOK
  <2> QED BY <2>1, <2>2
<1>6. ASSUME NEW fd \in Fd, DelEvent(fd)  PROVE PollerInv'
  <2>1. PollerOK(poller')
    BY <1>0, <1>6, DelEventOK DEF DelEvent
  <2>2. RestOK' /\ ~crashed'
    BY <1>0, <1>6 DEF DelEvent, RestOK
  <2> QED BY <2>1, <2>2
<1>7. ASSUME NEW fd \in Fd, OsClose(fd)  PROVE PollerInv'
  <2>1. PollerOK(poller')
    BY <1>0, <1>7, DelEventOK DEF OsClose, del_event
  <2>2. RestOK' /\ ~crashed'
    BY <1>0, <1>7 DEF OsClose, RestOK
  <2> QED BY <2>1, <2>2
<1>8. ASSUME NEW fd \in Fd, OsOpen(fd)  PROVE PollerInv'
  <2>1. PollerOK(poller')
    BY <1>0, <1>8 DEF OsOpen
  <2>2. RestOK' /\ ~crashed'
    BY <1>0, <1>8 DEF OsOpen, RestOK
  <2> QED BY <2>1, <2>2
<1>9. ASSUME NEW ready \in SUBSET Fd, PollWait(ready)  PROVE PollerInv'
  <2>1. PollerOK(poller')
    BY <1>0, <1>9 DEF PollWait
  <2>2. RestOK' /\ ~crashed'
    BY <1>0, <1>9 DEF PollWait, RestOK
  <2> QED BY <2>1, <2>2
<1>10. CASE EndRound
  <2>1. PollerOK(poller')
    BY <1>0, <1>10, SweepOK DEF EndRound
  <2>2. RestOK' /\ ~crashed'
    BY <1>0, <1>10 DEF EndRound, RestOK
  <2> QED BY <2>1, <2>2
<1>11. CASE UNCHANGED pollerVars
  <2>1. PollerOK(poller')
    BY <1>0, <1>11 DEF pollerVars
  <2>2. RestOK' /\ ~crashed'
    BY <1>0, <1>11 DEF pollerVars, RestOK
  <2> QED BY <2>1, <2>2
<1> QED
  BY <1>1, <1>2, <1>3, <1>4, <1>5, <1>6, <1>7, <1>8, <1>9, <1>10, <1>11,
     DispatchPollerInv, OwnersAssumption DEF PollerNext

(* The inductive invariant holds in every reachable state.                 *)
LEMMA PollerInvAlways == PollerSpec => []PollerInv
BY InitPollerInv, NextPollerInv, PTL DEF PollerSpec

(* The variables of the event loop keep their types.                       *)
THEOREM PollerTyped == PollerSpec => []PollerTypeOK
<1>1. PollerInv => PollerTypeOK
  BY DEF PollerInv
<1> QED BY <1>1, PollerInvAlways, PTL

(* do_poll never calls a handler through a NULL reactor, in whatever order *)
(* the handlers of one round close, retire and reuse descriptors           *)
(* (epoll.cc:98-112, fd_poller.cc:74-84).                                  *)
THEOREM NoNullDispatchSafe == PollerSpec => []NoNullDispatch
<1>1. PollerInv => NoNullDispatch
  BY DEF PollerInv
<1> QED BY <1>1, PollerInvAlways, PTL

(* A descriptor is registered with epoll only while its entry is ACTIVE    *)
(* and has a reactor (fd_poller.cc:74-84,130-149).                         *)
THEOREM RegisteredSafe == PollerSpec => [](RegisteredIsActive /\ ActiveHasReactor)
<1>1. PollerInv => RegisteredIsActive /\ ActiveHasReactor
  BY DEF PollerInv
<1> QED BY <1>1, PollerInvAlways, PTL

-----------------------------------------------------------------------------
(***************************************************************************)
(* Mailbox: it implements Delivery.  The invariant is about the whole      *)
(* history, delivered \o mb.chan: it has no gap, because every write       *)
(* appends 1, 2, ..., n to it.                                             *)
(***************************************************************************)

(* The write buffer holds the messages written, in order.                  *)
LogInOrder == \A k \in 1 .. Len(mb.log) : mb.log[k] = k

History == delivered \o mb.chan

MailInv ==
  /\ mb \in [log : Seq(Nat), chan : Seq(Nat)]
  /\ delivered \in Seq(Nat)
  /\ LogInOrder
  /\ D!NoGap(History, Len(mb.log))

(* Concatenation of sequences of message numbers is associative.           *)
LEMMA ConcatAssoc ==
  ASSUME NEW s \in Seq(Nat), NEW t \in Seq(Nat), NEW u \in Seq(Nat)
  PROVE  (s \o t) \o u = s \o (t \o u)
<1> DEFINE l == (s \o t) \o u
           r == s \o (t \o u)
<1>1. Len(s) \in Nat /\ Len(t) \in Nat /\ Len(u) \in Nat
  OBVIOUS
<1>2. l \in Seq(Nat) /\ r \in Seq(Nat)
  OBVIOUS
<1>3. Len(l) = Len(s) + Len(t) + Len(u) /\ Len(r) = Len(s) + Len(t) + Len(u)
  OBVIOUS
<1>4. ASSUME NEW i \in 1 .. Len(s) + Len(t) + Len(u)  PROVE l[i] = r[i]
  <2>1. CASE i <= Len(s)
    BY <1>1, <2>1
  <2>2. CASE i > Len(s) /\ i <= Len(s) + Len(t)
    BY <1>1, <2>2
  <2>3. CASE i > Len(s) + Len(t)
    BY <1>1, <2>3
  <2> QED BY <1>1, <2>1, <2>2, <2>3
<1> HIDE DEF l, r
<1>5. l = r
  BY <1>2, <1>3, <1>4, SeqEqual
<1> QED
  BY <1>5 DEF l, r

(* A prefix of a sequence without gaps has none, and neither does it with  *)
(* more messages written.                                                  *)
LEMMA NoGapPrefix ==
  ASSUME NEW d \in Seq(Nat), NEW s \in Seq(Nat), NEW w \in Nat, D!NoGap(d \o s, w)
  PROVE  D!NoGap(d, w)
<1> DEFINE h == d \o s
<1>1. Len(d) \in Nat /\ Len(s) \in Nat /\ Len(h) = Len(d) + Len(s)
  OBVIOUS
<1>2. \A i \in 1 .. Len(d) : h[i] = d[i]
  OBVIOUS
<1>3. D!NoGap(h, w)
  OBVIOUS
<1> SUFFICES ASSUME NEW i \in 1 .. Len(d)
             PROVE  /\ d[i] \in 1 .. w
                    /\ d[i] = 1 \/ \E j \in 1 .. i - 1 : d[j] = d[i] - 1
  BY DEF D!NoGap
<1> HIDE DEF h
<1>4. i \in 1 .. Len(h)
  BY <1>1
<1>5. h[i] \in 1 .. w /\ (h[i] = 1 \/ \E j \in 1 .. i - 1 : h[j] = h[i] - 1)
  BY <1>3, <1>4 DEF D!NoGap
<1>6. \A j \in 1 .. i - 1 : j \in 1 .. Len(d)
  BY <1>1
<1> QED
  BY <1>2, <1>5, <1>6

(* Appending the messages 1 to w + 1 to a sequence without gaps leaves     *)
(* none.                                                                   *)
LEMMA NoGapAppend ==
  ASSUME NEW h \in Seq(Nat), NEW w \in Nat, D!NoGap(h, w),
         NEW t \in Seq(Nat), Len(t) = w + 1, \A k \in 1 .. w + 1 : t[k] = k
  PROVE  D!NoGap(h \o t, w + 1)
<1> DEFINE g == h \o t
<1>1. Len(h) \in Nat /\ Len(g) = Len(h) + w + 1
  OBVIOUS
<1>2. \A i \in 1 .. Len(h) : g[i] = h[i]
  OBVIOUS
<1>3. \A k \in 1 .. w + 1 : g[Len(h) + k] = k
  OBVIOUS
<1> SUFFICES ASSUME NEW i \in 1 .. Len(g)
             PROVE  /\ g[i] \in 1 .. w + 1
                    /\ g[i] = 1 \/ \E j \in 1 .. i - 1 : g[j] = g[i] - 1
  BY DEF D!NoGap
<1> HIDE DEF g
<1>4. CASE i \in 1 .. Len(h)
  <2>1. h[i] \in 1 .. w /\ (h[i] = 1 \/ \E j \in 1 .. i - 1 : h[j] = h[i] - 1)
    BY <1>4 DEF D!NoGap
  <2>2. \A j \in 1 .. i - 1 : j \in 1 .. Len(h)
    BY <1>1, <1>4
  <2>3. h[i] \in 1 .. w + 1
    BY <2>1
  <2> QED BY <1>2, <1>4, <2>1, <2>2, <2>3
<1>5. CASE i \notin 1 .. Len(h)
  <2> DEFINE k == i - Len(h)
  <2>1. k \in 1 .. w + 1 /\ i = Len(h) + k
    BY <1>1, <1>5
  <2>2. g[i] = k
    BY <1>3, <2>1
  <2>3. CASE k = 1
    BY <2>1, <2>2, <2>3
  <2>4. CASE k # 1
    <3>1. k - 1 \in 1 .. w + 1 /\ i - 1 = Len(h) + (k - 1) /\ i - 1 \in 1 .. i - 1
      BY <1>1, <2>1, <2>4
    <3>2. g[i - 1] = k - 1
      BY <1>3, <3>1
    <3> QED BY <2>1, <2>2, <3>1, <3>2
  <2> QED BY <2>3, <2>4
<1> QED
  BY <1>4, <1>5

(* The empty pipe satisfies the invariant.                                 *)
LEMMA InitMailInv == MailInit => MailInv
<1> SUFFICES ASSUME MailInit PROVE MailInv
  OBVIOUS
<1>1. Len(History) = 0
  BY DEF MailInit, EmptyMailbox, History
<1> QED
  BY <1>1 DEF MailInit, EmptyMailbox, MailInv, LogInOrder, D!NoGap

(* write() and try_write() preserve it.                                    *)
LEMMA WriteMailInv ==
  ASSUME MailInv, Write
  PROVE  MailInv'
<1> DEFINE n == Len(mb.log)
           t == Append(mb.log, n + 1)
<1>1. /\ mb.log \in Seq(Nat) /\ mb.chan \in Seq(Nat) /\ delivered \in Seq(Nat)
      /\ n \in Nat
  BY DEF MailInv
<1>2. t \in Seq(Nat) /\ Len(t) = n + 1 /\ \A k \in 1 .. n + 1 : t[k] = k
  <2>1. t \in Seq(Nat) /\ Len(t) = n + 1
    BY <1>1
  <2>2. ASSUME NEW k \in 1 .. n + 1  PROVE t[k] = k
    <3>1. CASE k = n + 1
      BY <1>1, <3>1
    <3>2. CASE k \in 1 .. n
      <4>1. t[k] = mb.log[k]
        BY <1>1, <3>2
      <4> QED BY <3>2, <4>1 DEF MailInv, LogInOrder
    <3> QED BY <1>1, <3>1, <3>2
  <2> QED BY <2>1, <2>2
<1>3. mb' = [log |-> t, chan |-> mb.chan \o t] /\ delivered' = delivered
  BY DEF Write, write, Flushed
<1>4. History \in Seq(Nat) /\ D!NoGap(History, n)
  BY <1>1 DEF MailInv, History
<1> HIDE DEF t, n
<1>5. History' = History \o t
  <2>1. History' = delivered \o (mb.chan \o t)
    BY <1>3 DEF History
  <2> QED BY <1>1, <1>2, <2>1, ConcatAssoc DEF History
<1>6. D!NoGap(History \o t, n + 1)
  BY <1>1, <1>2, <1>4, NoGapAppend
<1>7. Len(mb'.log) = n + 1 /\ LogInOrder'
  BY <1>2, <1>3 DEF LogInOrder
<1>8. mb' \in [log : Seq(Nat), chan : Seq(Nat)]
  BY <1>1, <1>2, <1>3
<1> QED
  BY <1>1, <1>3, <1>5, <1>6, <1>7, <1>8 DEF MailInv

(* What a read takes from the channel and what it leaves there             *)
(* (ax_tpipe.cc) are the two parts of it.                                  *)
LEMMA SplitSeq ==
  ASSUME NEW c \in Seq(Nat), NEW n \in 1 .. Len(c)
  PROVE  SubSeq(c, 1, n) \o SubSeq(c, n + 1, Len(c)) = c
<1>0. PICK a, b : a = SubSeq(c, 1, n) /\ b = SubSeq(c, n + 1, Len(c))
  OBVIOUS
<1>1. Len(c) \in Nat /\ n \in Nat /\ n <= Len(c) /\ n + 1 \in Nat
  OBVIOUS
<1>2. a \in Seq(Nat) /\ b \in Seq(Nat) /\ Len(a) = n /\ Len(b) = Len(c) - n
  BY <1>0, <1>1
<1>3. \A i \in 1 .. n : a[i] = c[i]
  BY <1>0, <1>1
<1>4. \A i \in 1 .. Len(c) - n : b[i] = c[i + n]
  <2> SUFFICES ASSUME NEW i \in 1 .. Len(c) - n PROVE b[i] = c[i + n]
    OBVIOUS
  <2>1. PICK m : m = Len(c)
    OBVIOUS
  <2>2. SubSeq(c, n + 1, m)[i] = c[(n + 1) + i - 1]
    BY <1>1, <2>1
  <2>3. (n + 1) + i - 1 = i + n
    BY <1>1
  <2> QED BY <1>0, <2>1, <2>2, <2>3
<1>5. /\ Len(a \o b) = Len(a) + Len(b) /\ a \o b \in Seq(Nat)
      /\ \A i \in 1 .. Len(a) + Len(b) :
           (a \o b)[i] = IF i <= Len(a) THEN a[i] ELSE b[i - Len(a)]
  BY <1>2, ConcatProperties
<1>6. Len(a) + Len(b) = Len(c)
  BY <1>1, <1>2
<1>7. ASSUME NEW i \in 1 .. Len(c) PROVE (a \o b)[i] = c[i]
  <2>1. i \in Nat /\ i >= 1 /\ i <= Len(c)
    BY <1>1
  <2>2. i <= n \/ i > n
    BY <1>1, <2>1
  <2>3. CASE i <= n
    <3>1. i \in 1 .. n
      BY <1>1, <2>1, <2>3
    <3>2. (a \o b)[i] = a[i]
      BY <1>1, <1>2, <1>5, <3>1
    <3> QED BY <1>3, <3>1, <3>2
  <2>4. CASE i > n
    <3>1. i - n \in 1 .. Len(c) - n /\ (i - n) + n = i /\ i \in 1 .. Len(a) + Len(b)
      BY <1>1, <1>2, <2>1, <2>4
    <3>2. b[i - n] = c[i]
      BY <1>4, <3>1
    <3>3. (a \o b)[i] = b[i - Len(a)]
      <4>1. ~(i <= Len(a))
        BY <1>1, <1>2, <2>1, <2>4
      <4> QED BY <1>5, <3>1, <4>1
    <3>4. i - Len(a) = i - n
      BY <1>2
    <3> QED BY <3>2, <3>3, <3>4
  <2> QED BY <2>2, <2>3, <2>4
<1> QED BY <1>0, <1>5, <1>7, <1>6, SeqEqual

(* A read moves messages from the channel to the reader; the history is    *)
(* what it was.                                                            *)
LEMMA ReadMailInv ==
  ASSUME MailInv, NEW n \in 1 .. Len(mb.chan), Read(n)
  PROVE  MailInv' /\ mb'.log = mb.log /\ History' = History
<1> DEFINE c == mb.chan
           a == SubSeq(c, 1, n)
           b == SubSeq(c, n + 1, Len(c))
<1>1. mb.log \in Seq(Nat) /\ c \in Seq(Nat) /\ delivered \in Seq(Nat) /\ Len(c) \in Nat
  BY DEF MailInv
<1>2. a \in Seq(Nat) /\ b \in Seq(Nat) /\ Len(a) = n /\ Len(b) = Len(c) - n
  BY <1>1
<1>3. a \o b = c
  BY <1>1, SplitSeq
<1>4. /\ mb' = [log |-> mb.log, chan |-> b]
      /\ delivered' = delivered \o a
  <2>1. mb = [log |-> mb.log, chan |-> c]
    BY DEF MailInv
  <2> QED BY <2>1 DEF Read, read
<1> HIDE DEF a, b, c
<1>5. History' = History
  <2>1. History' = (delivered \o a) \o b
    BY <1>4 DEF History
  <2>2. (delivered \o a) \o b = delivered \o (a \o b)
    BY <1>1, <1>2, ConcatAssoc
  <2> QED BY <1>3, <2>1, <2>2 DEF History, c
<1>6. delivered' \in Seq(Nat) /\ mb' \in [log : Seq(Nat), chan : Seq(Nat)] /\ mb'.log = mb.log
  BY <1>1, <1>2, <1>4
<1>7. LogInOrder' /\ D!NoGap(History, Len(mb'.log))
  BY <1>6 DEF MailInv, LogInOrder
<1> QED
  BY <1>5, <1>6, <1>7 DEF MailInv

(* The invariant holds in every reachable state.                           *)
LEMMA NextMailInv == MailInv /\ [MailNext]_mailVars => MailInv'
<1> SUFFICES ASSUME MailInv, [MailNext]_mailVars PROVE MailInv'
  OBVIOUS
<1>1. CASE UNCHANGED mailVars
  BY <1>1 DEF mailVars, MailInv, LogInOrder, History
<1> QED
  BY <1>1, WriteMailInv, ReadMailInv DEF MailNext

(* A write is Delivery's Write, a read its Deliver.                        *)
LEMMA StepRefines ==
  ASSUME MailInv, MailInv', [MailNext]_mailVars
  PROVE  [D!Next]_<<Len(mb.log), delivered>>
<1>1. CASE Write
  <2>1. Len(mb'.log) = Len(mb.log) + 1 /\ delivered' = delivered
    BY <1>1 DEF Write, write, MailInv
  <2> QED BY <2>1 DEF D!Next, D!Write
<1>2. ASSUME NEW n \in 1 .. Len(mb.chan), Read(n)
      PROVE  D!Deliver
  <2> DEFINE a == SubSeq(mb.chan, 1, n)
  <2>1. /\ delivered \in Seq(Nat) /\ mb.chan \in Seq(Nat) /\ a \in Seq(Nat)
        /\ Len(mb.log) \in Nat
    BY DEF MailInv
  <2>2. delivered' = delivered \o a
    BY <1>2 DEF Read
  <2>3. mb'.log = mb.log /\ D!NoGap(History', Len(mb'.log)) /\ delivered' \in Seq(Nat)
        /\ mb'.chan \in Seq(Nat)
    BY <1>2, ReadMailInv DEF MailInv
  <2> HIDE DEF a
  <2>4. D!NoGap(delivered', Len(mb.log))
    BY <2>1, <2>3, NoGapPrefix DEF History
  <2>5. Len(delivered) <= Len(delivered') /\ delivered = SubSeq(delivered', 1, Len(delivered))
    <3>1. Len(delivered) \in Nat /\ Len(delivered') = Len(delivered) + Len(a) /\ Len(a) \in Nat
      BY <2>1, <2>2
    <3>2. SubSeq(delivered', 1, Len(delivered)) \in Seq(Nat)
          /\ Len(SubSeq(delivered', 1, Len(delivered))) = Len(delivered)
      BY <2>3, <3>1
    <3>3. \A i \in 1 .. Len(delivered) :
            SubSeq(delivered', 1, Len(delivered))[i] = delivered[i]
      BY <2>1, <2>2, <2>3, <3>1
    <3> QED BY <2>1, <3>1, <3>2, <3>3, SeqEqual
  <2> QED BY <2>3, <2>4, <2>5 DEF D!Deliver
<1>3. CASE UNCHANGED mailVars
  BY <1>3 DEF mailVars
<1> QED
  BY <1>1, <1>2, <1>3 DEF MailNext, D!Next

(* Resending the write buffer on every write (ax_tpipe.cc:109-127) repeats *)
(* messages, but the reader never meets a message before it was written or *)
(* before its predecessor, for any number of messages and any schedule.    *)
THEOREM MailboxDelivers == MailSpec => DeliverySpec
<1>1. MailInit => D!Init
  BY DEF MailInit, EmptyMailbox, D!Init
<1>2. MailInv /\ MailInv' /\ [MailNext]_mailVars => [D!Next]_<<Len(mb.log), delivered>>
  BY StepRefines
<1> QED
  BY <1>1, <1>2, InitMailInv, NextMailInv, PTL DEF MailSpec, DeliverySpec, D!Spec
=============================================================================
