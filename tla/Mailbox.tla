------------------------------ MODULE Mailbox ------------------------------
(***************************************************************************)
(* One direction of a thread pipe between its writer and its reader, one   *)
(* message at a time.  The k-th message written is the number k.           *)
(***************************************************************************)
EXTENDS MailboxOps

CONSTANT MaxMsgs   \* bound on the messages written

ASSUME MaxMsgsAssumption == MaxMsgs \in Nat

VARIABLES
  mb,         \* the mailbox
  delivered   \* the messages handed to cb_read_, in order

mailVars == <<mb, delivered>>

MailInit ==
  /\ mb = EmptyMailbox
  /\ delivered = <<>>

Write ==
  /\ Len(mb.log) < MaxMsgs
  /\ mb' = write(mb, Len(mb.log) + 1)
  /\ UNCHANGED delivered

(* A read event finds n complete messages.                                 *)
Read(n) ==
  /\ n \in 1 .. Len(mb.chan)
  /\ mb' = read(mb, n)
  /\ delivered' = delivered \o SubSeq(mb.chan, 1, n)

MailNext == Write \/ \E n \in 1 .. Len(mb.chan) : Read(n)

MailSpec == MailInit /\ [][MailNext]_mailVars

-----------------------------------------------------------------------------
MailTypeOK ==
  /\ mb \in [log : Seq(1 .. MaxMsgs), chan : Seq(1 .. MaxMsgs)]
  /\ delivered \in Seq(1 .. MaxMsgs)

D == INSTANCE Delivery WITH written <- Len(mb.log), delivered <- delivered

(* The mailbox keeps the promise of Delivery: resending the whole write    *)
(* buffer repeats messages but opens no gap and reorders nothing the       *)
(* reader sees for the first time (ax_tpipe.cc:109-127,146-185).           *)
DeliverySpec == D!Spec

(* A message reaches the callback once (ax_tpipe.cc:108 "try to flush the  *)
(* write buffer", ax_tpipe.cc:124 "clear write buffer. del event").        *)
DeliveredOnce ==
  \A i, j \in 1 .. Len(delivered) : delivered[i] = delivered[j] => i = j
=============================================================================
