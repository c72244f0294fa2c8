------------------------------- MODULE Buffer -------------------------------
(***************************************************************************)
(* buffer_t of core/ax_buffer.cc: the bytes waiting to be sent or parsed,  *)
(* in a block that is shifted, grown and shrunk under them.                *)
(*                                                                         *)
(* buf_ is the block, offset i of it being buf_[i + 1], and alloc_size_ is *)
(* its length.  Byte k ever pushed has the value k % Mod, so a byte lost,  *)
(* repeated or read from the wrong place shows.  Memory that was never     *)
(* written, or that was given back, reads as Junk.                         *)
(***************************************************************************)
EXTENDS Integers, Sequences

CONSTANTS
  Grow,        \* the 128 of prepare
  BufSizes,    \* sizes given to the constructor and to reset
  PushSizes,   \* sizes given to push, prepare and pop
  Limits,      \* arguments of set_shrink_limit
  Mod,         \* byte values
  MaxAlloc     \* bound on alloc_size_

ASSUME BufferAssumption ==
  /\ Grow \in Nat /\ Mod \in Nat \ {0} /\ MaxAlloc \in Nat
  /\ BufSizes \subseteq Nat /\ PushSizes \subseteq Nat /\ Limits \subseteq Nat

VARIABLES
  buf_, start_, end_, len_, upper_limit_, init_alloc_,
  pushed       \* number of bytes ever pushed, modulo Mod

bufVars == <<buf_, start_, end_, len_, upper_limit_, init_alloc_, pushed>>

Junk == -1
NoBytes == <<>>

alloc_size_ == Len(buf_)

(* n bytes of s from offset at, wherever they come from.                   *)
Bytes(s, at, n) == [i \in 1 .. n |-> IF at + i \in DOMAIN s THEN s[at + i] ELSE Junk]

(* The next n bytes of the stream.                                         *)
Fresh(n) == [i \in 1 .. n |-> (pushed + i - 1) % Mod]

(* memcpy and memmove of s to offset at of block b.                        *)
Written(b, at, s) ==
  [i \in DOMAIN b |-> IF i - at \in DOMAIN s THEN s[i - at] ELSE b[i]]

(* realloc and malloc.                                                     *)
Resized(b, n) == Bytes(b, 0, n)

BufInit ==
  /\ \/ \E n \in BufSizes : /\ buf_ = Resized(NoBytes, n)
                            /\ upper_limit_ = n * 4
                            /\ init_alloc_ = n
     \/ buf_ = NoBytes /\ upper_limit_ = 0 /\ init_alloc_ = 0
  /\ start_ = 0 /\ end_ = 0 /\ len_ = 0
  /\ pushed = 0

(* The part of the state prepare works on.                                 *)
BufNow == [buf |-> buf_, start |-> start_, end |-> end_]

ShrinkBlock(b, from, n) == Written(Resized(NoBytes, init_alloc_), 0, Bytes(b, from, n))

Oversized == upper_limit_ > 0 /\ alloc_size_ > upper_limit_

(* Mutant of Shift: the data stay where they are.                          *)
BugShift ==
  [buf |-> IF Oversized /\ len_ < init_alloc_ THEN ShrinkBlock(buf_, 0, len_) ELSE buf_,
   start |-> 0, end |-> len_]

Shift ==
  IF alloc_size_ = 0 THEN BufNow
  ELSE [buf |-> IF Oversized /\ len_ < init_alloc_
                THEN ShrinkBlock(buf_, start_, len_)
                ELSE Written(buf_, 0, Bytes(buf_, start_, len_)),
        start |-> 0, end |-> len_]

Prepare(size) ==
  LET c == IF end_ + size > alloc_size_ THEN Shift ELSE BufNow
      need == c.end + size
      have == Len(c.buf)
  IN  IF need <= have THEN c
      ELSE [c EXCEPT !.buf = Resized(@, IF need - have < Grow THEN have + Grow ELSE need)]

(* push of size bytes, and with room > size the prepare(room), read into   *)
(* tail(), flush_push(size) of Connect::read and of TPipe.                 *)
BufPush(room, size) ==
  LET c == Prepare(room)
  IN  /\ size <= room /\ Len(c.buf) <= MaxAlloc
      /\ c.end + size <= Len(c.buf)
      /\ buf_' = Written(c.buf, c.end, Fresh(size))
      /\ start_' = c.start
      /\ end_' = c.end + size
      /\ len_' = len_ + size
      /\ pushed' = (pushed + size) % Mod
      /\ UNCHANGED <<upper_limit_, init_alloc_>>

(* pop: the first n bytes go; an oversized block goes with the last byte.  *)
PopBytes(n) ==
  IF n >= len_
  THEN /\ start_' = 0 /\ end_' = 0 /\ len_' = 0
       /\ buf_' = IF Oversized THEN ShrinkBlock(buf_, 0, 0) ELSE buf_
  ELSE /\ start_' = start_ + n
       /\ len_' = len_ - n
       /\ UNCHANGED <<buf_, end_>>

BufPop(n) ==
  /\ PopBytes(n)
  /\ UNCHANGED <<upper_limit_, init_alloc_, pushed>>

(* pop_char, pop_short and pop_int assert that there are data.  They read  *)
(* the front after the pop, which may have freed the block.                *)
BufPopTyped(n) == len_ > 0 /\ BufPop(n)

BufShift ==
  LET c == Shift
  IN  /\ buf_' = c.buf /\ start_' = c.start /\ end_' = c.end
      /\ UNCHANGED <<len_, upper_limit_, init_alloc_, pushed>>

(* reset asserts that realloc gave memory: not to 0 bytes.                 *)
BufReset(size) ==
  /\ size > 0 \/ alloc_size_ = 0
  /\ buf_' = Resized(buf_, size)
  /\ start_' = 0 /\ end_' = 0 /\ len_' = 0
  /\ UNCHANGED <<upper_limit_, init_alloc_, pushed>>

SetShrinkLimit(n) ==
  /\ upper_limit_' = n
  /\ UNCHANGED <<buf_, start_, end_, len_, init_alloc_, pushed>>

(* The copy constructor, the copy taking the place of the original.        *)
BufCopy ==
  /\ buf_' = Written(Resized(NoBytes, alloc_size_), 0, Bytes(buf_, start_, len_))
  /\ start_' = 0 /\ end_' = len_
  /\ upper_limit_' = alloc_size_ * 4
  /\ init_alloc_' = alloc_size_
  /\ UNCHANGED <<len_, pushed>>

BufNext ==
  \/ \E room, size \in PushSizes : BufPush(room, size)
  \/ \E n \in PushSizes : BufPop(n) \/ BufPopTyped(n)
  \/ BufShift
  \/ \E n \in BufSizes \cup {0} : BufReset(n)
  \/ \E n \in Limits : SetShrinkLimit(n)
  \/ BufCopy

BufSpec == BufInit /\ [][BufNext]_bufVars

-----------------------------------------------------------------------------
(* buffer_t is a byte stream: what is left to pop is always the last len_  *)
(* bytes pushed, in order, however the block was moved, grown or shrunk;   *)
(* and the data lie inside the block, so that push and flush_push never    *)
(* write past the allocation.                                              *)
StreamKept ==
  /\ start_ + len_ = end_ /\ end_ <= alloc_size_
  /\ \A i \in 1 .. len_ : buf_[start_ + i] = (pushed - len_ + i - 1) % Mod
=============================================================================
