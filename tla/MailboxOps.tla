----------------------------- MODULE MailboxOps -----------------------------
(***************************************************************************)
(* One direction of a thread pipe (tpipe_t of core/ax_tpipe.cc) at the     *)
(* level of whole messages: the writer's wbuf_ and the socket.  TPipe      *)
(* models the same pipe cell by cell and refines this one; the gateway     *)
(* (CGate) is composed from mailboxes.                                     *)
(*                                                                         *)
(*   log    the messages in wbuf_, which try_write never pops              *)
(*   chan   the messages in the socket, not read yet                       *)
(***************************************************************************)
EXTENDS Integers, Sequences

EmptyMailbox == [log |-> <<>>, chan |-> <<>>]

(* Mutant of Flushed: only what follows the first message is sent.         *)
BugFlushed(log) == Tail(log)

(* What try_write puts into the socket: the whole of wbuf_, from its       *)
(* start, every time.                                                      *)
Flushed(log) == log

(* write: append to wbuf_, then try_write.                                 *)
write(mb, m) ==
  [log  |-> Append(mb.log, m),
   chan |-> mb.chan \o Flushed(Append(mb.log, m))]

(* on_ev_read consumes the n oldest messages.                              *)
read(mb, n) == [mb EXCEPT !.chan = SubSeq(@, n + 1, Len(@))]
=============================================================================
