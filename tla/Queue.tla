------------------------------- MODULE Queue -------------------------------
(***************************************************************************)
(* queue_t of core/ax_queue.cc: variable-length messages one behind the    *)
(* other in a chunk of memory.                                             *)
(*                                                                         *)
(* A chunk's data are the messages written there and not overwritten,      *)
(* popped ones included; writing over any byte of a message destroys it.   *)
(* Where no header starts, front() reads whatever bytes are there: any     *)
(* length of StaleLengths.  The messages not popped yet are kept beside    *)
(* the queue in unread.                                                    *)
(***************************************************************************)
EXTENDS Integers, Sequences, FiniteSetsExt

CONSTANTS
  VAR_MSG_HLEN,  \* offsetof(var_msg_t, data)
  MsgSize,       \* sizeof(var_msg_t)
  EachCapacity,  \* each_capacity_
  Lengths,       \* lengths of the data pushed, each less than a chunk
  StaleLengths,  \* lengths read where there is no header
  MaxChunks,     \* bound on the chunks allocated
  MaxUnread      \* bound on the messages waiting

ASSUME QueueAssumption ==
  /\ VAR_MSG_HLEN \in Nat \ {0} /\ MsgSize \in Nat /\ EachCapacity \in Nat
  /\ Lengths \subseteq Nat \ {0} /\ StaleLengths \subseteq Nat /\ MaxChunks \in Nat /\ MaxUnread \in Nat

VARIABLES
  chunks,        \* the buf_chunk_t, by number
  chunk_begin_, pos_begin_, chunk_back_, pos_back_, chunk_end_, pos_end_,
  chunk_spare_, nelems_,
  unread         \* the messages pushed and not popped, oldest first

queueVars == <<chunks, chunk_begin_, pos_begin_, chunk_back_, pos_back_, chunk_end_,
               pos_end_, chunk_spare_, nelems_, unread>>

NoChunk == 0

Chunk(n) == [capacity |-> n, nelems |-> 0, prev |-> NoChunk, next |-> NoChunk, data |-> {}]

QueueInit ==
  /\ chunks = <<Chunk(EachCapacity)>>
  /\ chunk_begin_ = 1 /\ pos_begin_ = 0
  /\ chunk_back_ = NoChunk /\ pos_back_ = 0
  /\ chunk_end_ = 1 /\ pos_end_ = 0
  /\ chunk_spare_ = NoChunk /\ nelems_ = 0
  /\ unread = <<>>

TotalLen(n) == Max({n + VAR_MSG_HLEN, MsgSize})

(* The data after the message m of n bytes is written at pos.              *)
Stored(data, pos, m) ==
  {d \in data : d.pos + VAR_MSG_HLEN + d.length <= pos
                \/ pos + VAR_MSG_HLEN + m.length <= d.pos}
  \cup {[pos |-> pos, length |-> m.length, id |-> m.id]}

(* push when the chunk at the end is full: another one is linked behind    *)
(* it, but chunk_end_ stays, and the message goes to its first byte.       *)
Extended(total) ==
  LET spare == chunk_spare_ # NoChunk /\ chunks[chunk_spare_].capacity > total
      new == IF spare THEN chunk_spare_ ELSE Len(chunks) + 1
      all == IF spare THEN chunks ELSE Append(chunks, Chunk(Max({EachCapacity, total})))
  IN  [chunks |-> [all EXCEPT ![new].next = NoChunk, ![new].prev = chunk_end_,
                              ![chunk_end_].next = new],
       spare |-> IF spare THEN chunks[chunk_spare_].next ELSE chunk_spare_]

QueuePush(n) ==
  LET total == TotalLen(n)
      fits == pos_end_ + total < chunks[chunk_end_].capacity
      c == IF fits THEN [chunks |-> chunks, spare |-> chunk_spare_] ELSE Extended(total)
      pos == IF fits THEN pos_end_ ELSE 0
      m == [length |-> n, id |-> IF unread = <<>> THEN 0 ELSE (unread[Len(unread)].id + 1) % 3]
  IN  /\ Len(unread) < MaxUnread /\ Len(c.chunks) <= MaxChunks
      /\ chunks' = [c.chunks EXCEPT ![chunk_end_].data = Stored(@, pos, m),
                                    ![chunk_end_].nelems = @ + 1]
      /\ chunk_spare_' = c.spare
      /\ chunk_back_' = chunk_end_
      /\ pos_back_' = pos
      /\ pos_end_' = pos + total
      /\ nelems_' = nelems_ + 1
      /\ unread' = Append(unread, m)
      /\ UNCHANGED <<chunk_begin_, pos_begin_, chunk_end_>>

(* front(): the message that starts at pos_begin_, if one does.            *)
QueueFront == {d \in chunks[chunk_begin_].data : d.pos = pos_begin_}

(* Mutant of EmptyChunk: back() still answers when the queue is empty.     *)
BugEmptyChunk(c) ==
  IF chunk_back_ = chunk_begin_
  THEN /\ chunk_end_ = chunk_begin_
       /\ pos_back_' = 0 /\ pos_end_' = 0 /\ chunks' = c
       /\ UNCHANGED <<chunk_begin_, chunk_back_>>
  ELSE /\ chunk_spare_ # NoChunk
       /\ chunks' = [c EXCEPT ![chunk_begin_].next = chunk_spare_, ![chunk_begin_].prev = NoChunk,
                              ![chunk_spare_].prev = NoChunk]
       /\ chunk_begin_' = chunk_spare_
       /\ UNCHANGED <<chunk_back_, pos_back_, pos_end_>>

(* pop, when the chunk has become empty: reset it if it is the last one.   *)
(* Otherwise its next is set to the spare chunk and then followed; without *)
(* a spare chunk the process crashes.                                      *)
EmptyChunk(c) ==
  IF chunk_back_ = chunk_begin_
  THEN /\ chunk_end_ = chunk_begin_
       /\ chunk_back_' = NoChunk /\ pos_back_' = 0 /\ pos_end_' = 0 /\ chunks' = c
       /\ UNCHANGED chunk_begin_
  ELSE /\ chunk_spare_ # NoChunk
       /\ chunks' = [c EXCEPT ![chunk_begin_].next = chunk_spare_, ![chunk_begin_].prev = NoChunk,
                              ![chunk_spare_].prev = NoChunk]
       /\ chunk_begin_' = chunk_spare_
       /\ UNCHANGED <<chunk_back_, pos_back_, pos_end_>>

QueuePop ==
  LET c == [chunks EXCEPT ![chunk_begin_].nelems = @ - 1]
      lengths == IF QueueFront = {} THEN StaleLengths ELSE {d.length : d \in QueueFront}
  IN  /\ chunks[chunk_begin_].nelems > 0
      /\ IF c[chunk_begin_].nelems = 0
         THEN EmptyChunk(c) /\ pos_begin_' = 0
         ELSE /\ chunks' = c
              /\ \E n \in lengths : pos_begin_' = pos_begin_ + VAR_MSG_HLEN + n
              /\ UNCHANGED <<chunk_begin_, chunk_back_, pos_back_, pos_end_>>
      /\ nelems_' = nelems_ - 1
      /\ unread' = Tail(unread)
      /\ UNCHANGED <<chunk_end_, chunk_spare_>>

QueueNext == QueuePop \/ \E n \in Lengths : QueuePush(n)

QueueSpec == QueueInit /\ [][QueueNext]_queueVars

-----------------------------------------------------------------------------
(* front() is the oldest message not popped and back() the newest          *)
(* (ax_queue.cc:112-170: "pop front data after calling front()").          *)
QueueInOrder ==
  unread # <<>> =>
    /\ \E d \in QueueFront : d.id = unread[1].id /\ d.length = unread[1].length
    /\ \E d \in chunks[chunk_back_].data :
         d.pos = pos_back_ /\ d.id = unread[Len(unread)].id

(* Whatever has become of the messages, count() is the number of them that *)
(* wait, as the unit test expects after 1001 pushes and 1000 pops          *)
(* (ax_queue.cc:187); back() answers just when one waits; and pop, which   *)
(* counts by chunk, always finds reader, writer and back in one chunk, so  *)
(* that its assertion (:136) holds and it never follows a missing spare    *)
(* chunk (:147).                                                           *)
QueueCounts ==
  /\ nelems_ = Len(unread) /\ nelems_ = chunks[chunk_begin_].nelems
  /\ chunk_begin_ = chunk_end_
  /\ chunk_back_ = IF unread = <<>> THEN NoChunk ELSE chunk_begin_
=============================================================================
