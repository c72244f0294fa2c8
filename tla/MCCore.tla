------------------------------- MODULE MCCore -------------------------------
(***************************************************************************)
(* The parts of the core library that keep state in memory, and the        *)
(* gateway, for TLC.  They are independent of each other here: a behaviour *)
(* exercises one of them, named by part, and the others stay as they were  *)
(* constructed.                                                            *)
(*   MemPool: three nodes, two blocks from malloc once they are out, and   *)
(*   owners that overwrite the link word with a plausible link;            *)
(*   ConnectContainer: three connections, as a capacity of 3 exhausts;     *)
(*   FdPoller: two descriptors and two reactors;                           *)
(*   CGate: two workers and two client sockets, which may be reset, with   *)
(*   hids that wrap after one connection and threads that may not start.   *)
(***************************************************************************)
EXTENDS MemPool, ConnectContainer, FdPoller, Mailbox, Buffer, HashMap, Queue, StringT, Proto,
        CGate

VARIABLE part

MCTexts == {<<>>, <<1>>, <<2, 1, 1>>}

Init ==
  /\ part \in {"pool", "container", "poller", "mailbox", "buffer", "hmap", "queue", "string", "proto",
             "gate"}
  /\ PoolInit /\ ContainerInit /\ PollerInit /\ MailInit
  /\ BufInit /\ HmapInit /\ QueueInit /\ StrInit /\ ProtoInit /\ GateInit
  /\ part # "buffer" => buf_ = NoBytes
  /\ part # "hmap" => nslot_ = 1
  /\ part # "string" => want = <<<<>>, <<>>>>

dataVars == <<bufVars, hmapVars, queueVars, strVars, msg>>
ownVars == <<poolVars, containerVars, pollerVars, mailVars>>
coreVars == <<ownVars, gateVars>>

PoolPart ==
  /\ part = "pool" /\ PoolNext
  /\ UNCHANGED <<part, containerVars, pollerVars, mailVars, gateVars, dataVars>>

ContainerPart ==
  /\ part = "container" /\ ContainerNext
  /\ UNCHANGED <<part, poolVars, pollerVars, mailVars, gateVars, dataVars>>

PollerPart ==
  /\ part = "poller" /\ PollerNext
  /\ UNCHANGED <<part, poolVars, containerVars, mailVars, gateVars, dataVars>>

MailboxPart ==
  /\ part = "mailbox" /\ MailNext
  /\ UNCHANGED <<part, poolVars, containerVars, pollerVars, gateVars, dataVars>>

BufferPart ==
  /\ part = "buffer" /\ BufNext
  /\ UNCHANGED <<part, coreVars, hmapVars, queueVars, strVars, msg>>

HmapPart ==
  /\ part = "hmap" /\ HmapNext
  /\ UNCHANGED <<part, coreVars, bufVars, queueVars, strVars, msg>>

QueuePart ==
  /\ part = "queue" /\ QueueNext
  /\ UNCHANGED <<part, coreVars, bufVars, hmapVars, strVars, msg>>

StringPart ==
  /\ part = "string" /\ StrNext
  /\ UNCHANGED <<part, coreVars, bufVars, hmapVars, queueVars, msg>>

ProtoPart ==
  /\ part = "proto" /\ ProtoNext
  /\ UNCHANGED <<part, coreVars, bufVars, hmapVars, queueVars, strVars>>

GatePart ==
  /\ part = "gate" /\ GateNext
  /\ UNCHANGED <<part, ownVars, dataVars>>

Next ==
  \/ PoolPart
  \/ ContainerPart
  \/ PollerPart
  \/ MailboxPart
  \/ BufferPart
  \/ HmapPart
  \/ QueuePart
  \/ StringPart
  \/ ProtoPart
  \/ GatePart

Spec == Init /\ [][Next]_<<part, coreVars, dataVars>>
=============================================================================
