------------------------------- MODULE TPipe -------------------------------
(***************************************************************************)
(* One direction of a thread pipe, tpipe_t of core/ax_tpipe.cc, cell by    *)
(* cell: the writer's wbuf_, the stream socket between the two threads and *)
(* the reader's rbuf_.                                                     *)
(*                                                                         *)
(* The k-th message written is HeaderLen header cells and PayloadLen[k]    *)
(* payload cells; a cell <<k, i>> is the i-th cell of message k.  The      *)
(* header carries the payload length, so a header can be decoded only when *)
(* its cells stand together in the stream.                                 *)
(***************************************************************************)
EXTENDS Integers, Sequences, FiniteSetsExt

CONSTANTS
  MaxMsgs,      \* bound on the messages written
  HeaderLen,    \* MSG_HEADER_LEN, in cells
  PayloadLen,   \* payload length of every message, in cells
  Cap,          \* what the socket holds, in cells
  ReadMax       \* MAX_PROTO_LEN, in cells: what one read may return

ASSUME SizesAssumption ==
  /\ MaxMsgs \in Nat /\ HeaderLen \in Nat \ {0}
  /\ PayloadLen \in [1 .. MaxMsgs -> Nat \ {0}]
  /\ Cap \in Nat \ {0} /\ ReadMax \in Nat \ {0}

VARIABLES
  ends,     \* the sides whose thread has called init()
  written,  \* number of messages written
  wbuf,     \* the writer's buffer
  sock,     \* the stream between the threads
  rbuf,     \* the reader's buffer
  frames    \* what cb_read_ has been called with

pipeVars == <<ends, written, wbuf, sock, rbuf, frames>>

Message(k) == [i \in 1 .. HeaderLen + PayloadLen[k] |-> <<k, i>>]

PipeInit ==
  /\ ends = {}
  /\ written = 0
  /\ wbuf = <<>> /\ sock = <<>> /\ rbuf = <<>>
  /\ frames = <<>>

InitSide(side) ==
  /\ side \notin ends
  /\ ends' = ends \cup {side}
  /\ UNCHANGED <<written, wbuf, sock, rbuf, frames>>

(* write() on a side that is initialised: pack behind wbuf_, then          *)
(* try_write().  The socket takes what fits (EAGAIN when nothing does);    *)
(* wbuf_ keeps everything.                                                 *)
Write ==
  /\ "writer" \in ends
  /\ written < MaxMsgs
  /\ written' = written + 1
  /\ wbuf' = wbuf \o Message(written + 1)
  /\ LET n == Min({Len(wbuf'), Cap - Len(sock)})
     IN  sock' = sock \o SubSeq(wbuf', 1, n)
  /\ UNCHANGED <<ends, rbuf, frames>>

-----------------------------------------------------------------------------
(* The reading side.                                                       *)

HeaderIntact(b) ==
  /\ Len(b) >= HeaderLen
  /\ \A i \in 1 .. HeaderLen : b[i] = <<b[1][1], i>>

(* Mutant of Complete: the message that ends the buffer is left there.     *)
BugComplete(b) == HeaderIntact(b) /\ Len(b) > HeaderLen + PayloadLen[b[1][1]]

(* The loop condition and the "need more data" test of on_ev_read.         *)
Complete(b) == HeaderIntact(b) /\ Len(b) >= HeaderLen + PayloadLen[b[1][1]]

(* The loop of on_ev_read: [out] frames handed to the callback, [rest]     *)
(* what stays in rbuf_.                                                    *)
RECURSIVE Parse(_, _)
Parse(b, out) ==
  IF ~Complete(b) THEN [out |-> out, rest |-> b]
  ELSE LET n == HeaderLen + PayloadLen[b[1][1]]
       IN  Parse(SubSeq(b, n + 1, Len(b)), Append(out, SubSeq(b, 1, n)))

(* Mutant of Received: the new bytes overwrite what an earlier read left.  *)
BugReceived(n) == SubSeq(sock, 1, n)

(* prepare(), read() and flush_push().                                     *)
Received(n) == rbuf \o SubSeq(sock, 1, n)

(* A header whose cells are torn decodes to an arbitrary length: the       *)
(* reader has lost the framing, and nothing is said about it from there.   *)
FramingLost == Len(rbuf) > HeaderLen /\ ~HeaderIntact(rbuf)

(* on_ev_read: read() returns n cells, any prefix of what is in the socket *)
(* as the writer may still be filling it.                                  *)
OnEvRead(n) ==
  /\ "reader" \in ends
  /\ ~FramingLost
  /\ LET p == Parse(Received(n), <<>>)
     IN  /\ frames' = frames \o p.out
         /\ rbuf' = p.rest
  /\ sock' = SubSeq(sock, n + 1, Len(sock))
  /\ UNCHANGED <<ends, written, wbuf>>

Reading == \E n \in 1 .. Min({Len(sock), ReadMax}) : OnEvRead(n)

PipeNext ==
  \/ \E side \in {"writer", "reader"} : InitSide(side)
  \/ Write
  \/ Reading

PipeSpec == PipeInit /\ [][PipeNext]_pipeVars

(* The reader's thread starts, and its loop polls a level-triggered        *)
(* descriptor for ever; nobody has to write.                               *)
PipeFairSpec == PipeSpec /\ WF_pipeVars(InitSide("reader")) /\ WF_pipeVars(Reading)

-----------------------------------------------------------------------------
(* The messages whose first cell is in s, in order.                        *)
MessagesIn(s) ==
  LET heads == SelectSeq(s, LAMBDA c : c[2] = 1)
  IN  [i \in 1 .. Len(heads) |-> heads[i][1]]

(* The message that a frame is, 0 for a torn one.                          *)
Frame(f) == IF f = Message(f[1][1]) THEN f[1][1] ELSE 0

M == INSTANCE Mailbox WITH
       mb <- [log |-> MessagesIn(wbuf), chan |-> MessagesIn(rbuf \o sock)],
       delivered <- [i \in 1 .. Len(frames) |-> Frame(frames[i])]

(* While the socket has room the pipe implements the message-level         *)
(* mailbox, however reads split the stream: each frame handed to the       *)
(* callback is a message from its header to its last byte                  *)
(* (ax_tpipe.cc:59-106).                                                   *)
MailboxSpec == M!MailSpec

(* A message that write() accepted reaches the callback, unless the        *)
(* framing is lost first (ax_tpipe.cc:108 "try to flush the write buffer", *)
(* ax_tpipe.cc:123-124: EV_WRITE is dropped once the buffer is clear).     *)
WrittenIsDelivered ==
  \A k \in 1 .. MaxMsgs :
    written >= k ~> FramingLost \/ \E i \in 1 .. Len(frames) : frames[i] = Message(k)
=============================================================================
