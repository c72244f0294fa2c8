----------------------------- MODULE DataProofs -----------------------------
(***************************************************************************)
(* Proofs about the data structures of the core library: buffer_t,         *)
(* the message queue and string_t, for all sizes.                          *)
(***************************************************************************)
EXTENDS Buffer, Queue, StringT, SequenceTheorems, TLAPS

-----------------------------------------------------------------------------
(***************************************************************************)
(* Buffer (core/ax_buffer.cc).                                             *)
(***************************************************************************)

(* A function on 1..n is a sequence of length n.                           *)
LEMMA FunIsSeq ==
  ASSUME NEW S, NEW n \in Nat, NEW f \in [1 .. n -> S]
  PROVE  f \in Seq(S) /\ Len(f) = n
OBVIOUS

(* The n bytes from an offset of a block (memcpy from buf_,                *)
(* ax_buffer.cc:43-54): those inside the block are the block's.            *)
LEMMA BytesAre ==
  ASSUME NEW s \in Seq(Int), NEW at \in Nat, NEW n \in Nat
  PROVE  /\ Bytes(s, at, n) \in Seq(Int) /\ Len(Bytes(s, at, n)) = n
         /\ \A i \in 1 .. n : at + i <= Len(s) => Bytes(s, at, n)[i] = s[at + i]
<1>1. Bytes(s, at, n) \in [1 .. n -> Int]
  BY DEF Bytes, Junk
<1>2. \A i \in 1 .. n : at + i <= Len(s) => at + i \in DOMAIN s
  OBVIOUS
<1>3. \A i \in 1 .. n : at + i <= Len(s) => Bytes(s, at, n)[i] = s[at + i]
  BY <1>2 DEF Bytes
<1> QED BY <1>1, <1>3, FunIsSeq

(* A copy to an offset of a block (memcpy to buf_, ax_buffer.cc:140-146)   *)
(* changes what lies there and nothing else.                               *)
LEMMA WrittenIs ==
  ASSUME NEW b \in Seq(Int), NEW at \in Nat, NEW s \in Seq(Int)
  PROVE  /\ Written(b, at, s) \in Seq(Int) /\ Len(Written(b, at, s)) = Len(b)
         /\ \A i \in 1 .. Len(b) :
              Written(b, at, s)[i] = IF i > at /\ i <= at + Len(s) THEN s[i - at] ELSE b[i]
<1>1. DOMAIN b = 1 .. Len(b) /\ DOMAIN s = 1 .. Len(s) /\ Len(b) \in Nat /\ Len(s) \in Nat
  OBVIOUS
<1>2. \A i \in 1 .. Len(b) : i - at \in DOMAIN s <=> i > at /\ i <= at + Len(s)
  BY <1>1
<1>3. Written(b, at, s) \in [1 .. Len(b) -> Int]
  BY <1>1 DEF Written
<1>4. \A i \in 1 .. Len(b) :
         Written(b, at, s)[i] = IF i > at /\ i <= at + Len(s) THEN s[i - at] ELSE b[i]
  BY <1>1, <1>2 DEF Written
<1> QED BY <1>1, <1>3, <1>4, FunIsSeq

(* Division has one remainder.                                             *)
LEMMA ModUnique ==
  ASSUME NEW q \in Int, NEW r \in Int, NEW m \in Nat \ {0}, 0 <= r, r < m
  PROVE  (q * m + r) % m = r
OBVIOUS

(* The stream counts its bytes modulo Mod, and so may every partial sum.   *)
LEMMA ModAdd ==
  ASSUME NEW a \in Int, NEW b \in Int, NEW m \in Nat \ {0}
  PROVE  ((a % m) + b) % m = (a + b) % m
<1> DEFINE q == a \div m
           r == a % m
           k == (r + b) \div m
           s == (r + b) % m
<1>1. a = q * m + r /\ q \in Int /\ r \in Int /\ 0 <= r /\ r < m
  OBVIOUS
<1> HIDE DEF q, r
<1>2. r + b = k * m + s /\ k \in Int /\ s \in Int /\ 0 <= s /\ s < m
  BY <1>1
<1> HIDE DEF k, s
<1>3. a + b = (q + k) * m + s
  BY <1>1, <1>2
<1>4. ((q + k) * m + s) % m = s
  BY <1>1, <1>2, ModUnique
<1> QED BY <1>3, <1>4 DEF s, r

-----------------------------------------------------------------------------

(* The last n bytes of a stream of p lie at offset at of block b.          *)
Holds(b, at, n, p) ==
  /\ b \in Seq(Int) /\ at \in Nat /\ at + n <= Len(b)
  /\ \A i \in 1 .. n : b[at + i] = (p - n + i - 1) % Mod

(* The inductive invariant: end_ is behind the len_ bytes at start_, which *)
(* are the last len_ bytes of the stream.  StreamKept only speaks of what  *)
(* is in the buffer; that the block has room up to end_ makes it           *)
(* inductive.                                                              *)
BufInv ==
  /\ len_ \in Nat /\ upper_limit_ \in Nat /\ init_alloc_ \in Nat /\ pushed \in Int
  /\ end_ = start_ + len_
  /\ Holds(buf_, start_, len_, pushed)

(* The data survive a move to the front of another block (shrink and       *)
(* shift, ax_buffer.cc:43-66).                                             *)
LEMMA HoldsCopy ==
  ASSUME NEW b, NEW at, NEW n \in Nat, NEW p \in Int, Holds(b, at, n, p),
         NEW d \in Seq(Int), n <= Len(d)
  PROVE  Holds(Written(d, 0, Bytes(b, at, n)), 0, n, p)
<1> DEFINE s == Bytes(b, at, n)
           w == Written(d, 0, s)
<1>1. b \in Seq(Int) /\ at \in Nat /\ at + n <= Len(b) /\ Len(b) \in Nat /\ Len(d) \in Nat
  BY DEF Holds
<1>2. s \in Seq(Int) /\ Len(s) = n /\ \A i \in 1 .. n : at + i <= Len(b) => s[i] = b[at + i]
  BY <1>1, BytesAre
<1> HIDE DEF s
<1>3. w \in Seq(Int) /\ Len(w) = Len(d)
      /\ \A i \in 1 .. Len(d) : w[i] = IF i > 0 /\ i <= 0 + Len(s) THEN s[i - 0] ELSE d[i]
  BY <1>2, WrittenIs
<1> HIDE DEF w
<1>4. ASSUME NEW i \in 1 .. n  PROVE w[0 + i] = (p - n + i - 1) % Mod
  <2>0. i \in 1 .. Len(d) /\ i > 0 /\ i <= 0 + n /\ i - 0 = i /\ 0 + i = i /\ at + i <= Len(b)
    BY <1>1
  <2>1. w[i] = s[i]
    BY <1>2, <1>3, <2>0
  <2>2. s[i] = b[at + i]
    BY <1>2, <2>0
  <2> QED BY <2>0, <2>1, <2>2 DEF Holds
<1> QED BY <1>1, <1>3, <1>4 DEF Holds, w, s

(* realloc keeps the data where they are (ax_buffer.cc:122-137).           *)
LEMMA HoldsResized ==
  ASSUME NEW b, NEW at, NEW n \in Nat, NEW p \in Int, Holds(b, at, n, p),
         NEW k \in Nat, Len(b) <= k
  PROVE  Holds(Resized(b, k), at, n, p) /\ Len(Resized(b, k)) = k
<1> DEFINE r == Resized(b, k)
<1>1. b \in Seq(Int) /\ at \in Nat /\ at + n <= Len(b) /\ Len(b) \in Nat
  BY DEF Holds
<1>2. r \in Seq(Int) /\ Len(r) = k /\ \A i \in 1 .. k : i <= Len(b) => r[i] = b[i]
  <2>1. r = Bytes(b, 0, k)
    BY DEF Resized
  <2> HIDE DEF r
  <2>2. Bytes(b, 0, k) \in Seq(Int) /\ Len(Bytes(b, 0, k)) = k
    BY <1>1, BytesAre
  <2>3. ASSUME NEW i \in 1 .. k, i <= Len(b) PROVE Bytes(b, 0, k)[i] = b[i]
    <3>1. 0 + i = i
      OBVIOUS
    <3>2. Bytes(b, 0, k)[i] = b[0 + i]
      BY <1>1, <2>3, <3>1, BytesAre
    <3> QED BY <3>1, <3>2
  <2> QED BY <2>1, <2>2, <2>3
<1> HIDE DEF r
<1>3. ASSUME NEW i \in 1 .. n  PROVE r[at + i] = b[at + i]
  <2>1. at + i \in 1 .. k /\ at + i <= Len(b)
    BY <1>1
  <2> QED BY <1>1, <1>2, <2>1
<1>4. at + n <= k
  BY <1>1
<1>5. \A i \in 1 .. n : r[at + i] = (p - n + i - 1) % Mod
  BY <1>3 DEF Holds
<1> QED BY <1>1, <1>2, <1>4, <1>5 DEF Holds, r

(* Fresh bytes behind the data extend the stream (ax_buffer.cc:140-175).   *)
LEMMA HoldsPushed ==
  ASSUME NEW b, NEW at, NEW n \in Nat, Holds(b, at, n, pushed), pushed \in Int,
         NEW k \in Nat, at + n + k <= Len(b)
  PROVE  Holds(Written(b, at + n, Fresh(k)), at, n + k, (pushed + k) % Mod)
<1> DEFINE f == Fresh(k)
           w == Written(b, at + n, f)
           q == (pushed + k) % Mod
<1>1. b \in Seq(Int) /\ at \in Nat /\ Len(b) \in Nat /\ Mod \in Nat \ {0}
  BY BufferAssumption DEF Holds
<1>2. f \in Seq(Int) /\ Len(f) = k /\ \A i \in 1 .. k : f[i] = (pushed + i - 1) % Mod
  <2>1. f \in [1 .. k -> Int]
    BY <1>1 DEF Fresh
  <2>2. \A i \in 1 .. k : f[i] = (pushed + i - 1) % Mod
    BY DEF Fresh
  <2> QED BY <2>1, <2>2, FunIsSeq
<1> HIDE DEF f
<1>3. w \in Seq(Int) /\ Len(w) = Len(b)
      /\ \A i \in 1 .. Len(b) :
           w[i] = IF i > at + n /\ i <= at + n + Len(f) THEN f[i - (at + n)] ELSE b[i]
  <2>1. at + n \in Nat
    BY <1>1
  <2> QED BY <1>1, <1>2, <2>1, WrittenIs
<1> HIDE DEF w
<1>4. ASSUME NEW x \in Int  PROVE (q + x) % Mod = (pushed + k + x) % Mod
  <2> DEFINE a == pushed + k
  <2>1. a \in Int
    OBVIOUS
  <2> HIDE DEF a
  <2>2. ((a % Mod) + x) % Mod = (a + x) % Mod
    BY <1>1, <2>1, ModAdd
  <2> QED BY <2>2 DEF a
<1> HIDE DEF q
<1>5. ASSUME NEW i \in 1 .. n + k  PROVE w[at + i] = (q - (n + k) + i - 1) % Mod
  <2>1. q \in Int
    BY <1>1 DEF q
  <2>2. (q + (i - 1 - n - k)) % Mod = (pushed + k + (i - 1 - n - k)) % Mod
    BY <1>4
  <2>3. q + (i - 1 - n - k) = q - (n + k) + i - 1
        /\ pushed + k + (i - 1 - n - k) = pushed - n + i - 1
        /\ pushed - n + i - 1 = pushed + (i - n) - 1
    BY <2>1
  <2>4. (q - (n + k) + i - 1) % Mod = (pushed - n + i - 1) % Mod
    BY <2>2, <2>3
  <2>5. CASE i <= n
    <3>1. w[at + i] = b[at + i]
      BY <1>1, <1>2, <1>3, <2>5
    <3>2. i \in 1 .. n
      BY <2>5
    <3>3. b[at + i] = (pushed - n + i - 1) % Mod
      BY <3>2 DEF Holds
    <3> QED BY <2>4, <3>1, <3>3
  <2>6. CASE i > n
    <3>1. i - n \in 1 .. k /\ at + i \in 1 .. Len(b) /\ at + i > at + n /\ at + i <= at + n + k
          /\ at + i - (at + n) = i - n
      BY <1>1, <2>6
    <3>2. w[at + i] = f[i - n]
      <4>0. PICK j \in Int : j = at + i
        BY <1>1
      <4>1. j \in 1 .. Len(b) /\ j > at + n /\ j <= at + n + Len(f)
        BY <1>2, <3>1, <4>0
      <4>2. w[j] = f[j - (at + n)]
        BY <1>3, <4>1
      <4>3. j - (at + n) = i - n
        BY <1>1, <4>0
      <4> QED BY <4>0, <4>2, <4>3
    <3>3. f[i - n] = (pushed + (i - n) - 1) % Mod
      BY <1>2, <3>1
    <3> QED BY <2>3, <2>4, <3>1, <3>2, <3>3
  <2> QED BY <2>5, <2>6
<1> QED BY <1>1, <1>3, <1>5 DEF Holds, w, f, q

(* A block of n bytes nobody has written (malloc, ax_buffer.cc:9-20).      *)
LEMMA NewBlock ==
  ASSUME NEW n \in Nat
  PROVE  Resized(NoBytes, n) \in Seq(Int) /\ Len(Resized(NoBytes, n)) = n
<1>1. NoBytes \in Seq(Int)
  BY DEF NoBytes
<1> QED BY <1>1, BytesAre DEF Resized

(* An empty stream lies anywhere.                                          *)
LEMMA HoldsNothing ==
  ASSUME NEW b \in Seq(Int), NEW p
  PROVE  Holds(b, 0, 0, p)
BY DEF Holds

(* The constructor (ax_buffer.cc:9-20) establishes the invariant.          *)
LEMMA InitBufInv == BufInit => BufInv
<1> SUFFICES ASSUME BufInit PROVE BufInv
  OBVIOUS
<1>1. buf_ \in Seq(Int) /\ upper_limit_ \in Nat /\ init_alloc_ \in Nat
  <2>1. CASE buf_ = NoBytes /\ upper_limit_ = 0 /\ init_alloc_ = 0
    BY <2>1 DEF NoBytes
  <2>2. CASE \E n \in BufSizes : buf_ = Resized(NoBytes, n) /\ upper_limit_ = n * 4 /\ init_alloc_ = n
    BY <2>2, NewBlock, BufferAssumption
  <2> QED BY <2>1, <2>2 DEF BufInit
<1> QED BY <1>1, HoldsNothing DEF BufInit, BufInv

(* shift moves the data to the front of the block, or of a smaller one     *)
(* (ax_buffer.cc:56-66).                                                   *)
LEMMA ShiftKeeps ==
  ASSUME BufInv
  PROVE  /\ Shift.start \in Nat /\ Shift.end = Shift.start + len_
         /\ Holds(Shift.buf, Shift.start, len_, pushed)
<1>1. /\ len_ \in Nat /\ init_alloc_ \in Nat /\ pushed \in Int /\ end_ = start_ + len_
      /\ buf_ \in Seq(Int) /\ start_ \in Nat /\ len_ <= Len(buf_) /\ Len(buf_) \in Nat
      /\ Holds(buf_, start_, len_, pushed)
  BY DEF BufInv, Holds
<1>2. CASE alloc_size_ = 0
  BY <1>1, <1>2 DEF Shift, BufNow
<1>3. CASE alloc_size_ # 0 /\ Oversized /\ len_ < init_alloc_
  <2>1. Holds(ShrinkBlock(buf_, start_, len_), 0, len_, pushed)
    BY <1>1, <1>3, NewBlock, HoldsCopy DEF ShrinkBlock
  <2>2. Shift = [buf |-> ShrinkBlock(buf_, start_, len_), start |-> 0, end |-> len_]
    BY <1>3 DEF Shift
  <2> QED BY <1>1, <2>1, <2>2
<1>4. CASE alloc_size_ # 0 /\ ~(Oversized /\ len_ < init_alloc_)
  <2>1. Holds(Written(buf_, 0, Bytes(buf_, start_, len_)), 0, len_, pushed)
    BY <1>1, HoldsCopy
  <2>2. Shift = [buf |-> Written(buf_, 0, Bytes(buf_, start_, len_)), start |-> 0, end |-> len_]
    BY <1>4 DEF Shift
  <2> QED BY <1>1, <2>1, <2>2
<1> QED BY <1>2, <1>3, <1>4

(* prepare makes room behind the data and leaves them in place             *)
(* (ax_buffer.cc:122-137).                                                 *)
LEMMA PrepareKeeps ==
  ASSUME BufInv, NEW size \in Nat
  PROVE  /\ Prepare(size).start \in Nat /\ Prepare(size).end = Prepare(size).start + len_
         /\ Holds(Prepare(size).buf, Prepare(size).start, len_, pushed)
<1> DEFINE c == IF end_ + size > alloc_size_ THEN Shift ELSE BufNow
           need == c.end + size
           have == Len(c.buf)
           k == IF need - have < Grow THEN have + Grow ELSE need
<1>1. len_ \in Nat /\ pushed \in Int /\ Grow \in Nat
  BY BufferAssumption DEF BufInv
<1>2. /\ c.start \in Nat /\ c.end = c.start + len_ /\ Holds(c.buf, c.start, len_, pushed)
      /\ DOMAIN c = {"buf", "start", "end"} /\ c = [buf |-> c.buf, start |-> c.start, end |-> c.end]
  <2>1. CASE end_ + size > alloc_size_
    <3>1. DOMAIN Shift = {"buf", "start", "end"}
          /\ Shift = [buf |-> Shift.buf, start |-> Shift.start, end |-> Shift.end]
      BY DEF Shift, BufNow
    <3> QED BY <2>1, <3>1, ShiftKeeps
  <2>2. CASE ~(end_ + size > alloc_size_)
    BY <2>2 DEF BufNow, BufInv, Holds
  <2> QED BY <2>1, <2>2
<1>3. Prepare(size) = IF need <= have THEN c ELSE [c EXCEPT !.buf = Resized(c.buf, k)]
  BY DEF Prepare
<1> HIDE DEF c
<1>4. have \in Nat /\ need \in Nat
  BY <1>1, <1>2 DEF Holds
<1>5. CASE need <= have
  BY <1>2, <1>3, <1>5
<1>6. CASE ~(need <= have)
  <2>1. k \in Nat /\ have <= k
    BY <1>1, <1>4, <1>6
  <2> HIDE DEF k
  <2>2. Holds(Resized(c.buf, k), c.start, len_, pushed)
    BY <1>1, <1>2, <2>1, HoldsResized
  <2>3. Prepare(size) = [buf |-> Resized(c.buf, k), start |-> c.start, end |-> c.end]
    BY <1>2, <1>3, <1>6
  <2> QED BY <1>2, <2>2, <2>3
<1> QED BY <1>5, <1>6

(* push appends to the stream, whatever prepare had to do                  *)
(* (ax_buffer.cc:140-175).                                                 *)
LEMMA PushInv ==
  ASSUME BufInv, NEW room \in PushSizes, NEW size \in PushSizes, BufPush(room, size)
  PROVE  BufInv'
<1> DEFINE c == Prepare(room)
<1>1. room \in Nat /\ size \in Nat /\ len_ \in Nat /\ pushed \in Int /\ Mod \in Nat \ {0}
      /\ upper_limit_ \in Nat /\ init_alloc_ \in Nat
  BY BufferAssumption DEF BufInv
<1>2. c.start \in Nat /\ c.end = c.start + len_ /\ Holds(c.buf, c.start, len_, pushed)
  BY <1>1, PrepareKeeps
<1>3. /\ c.end + size <= Len(c.buf) /\ buf_' = Written(c.buf, c.end, Fresh(size))
      /\ start_' = c.start /\ end_' = c.end + size /\ len_' = len_ + size
      /\ pushed' = (pushed + size) % Mod /\ UNCHANGED <<upper_limit_, init_alloc_>>
  BY DEF BufPush
<1> HIDE DEF c
<1>4. Holds(buf_', start_', len_', pushed')
  BY <1>1, <1>2, <1>3, HoldsPushed
<1>5. len_' \in Nat /\ end_' = start_' + len_' /\ pushed' \in Int
  BY <1>1, <1>2, <1>3
<1> QED BY <1>1, <1>3, <1>4, <1>5 DEF BufInv

(* pop takes from the front of the stream, and shifts the rest when it     *)
(* passes the limit (ax_buffer.cc:68-113).                                 *)
LEMMA PopInv ==
  ASSUME BufInv, NEW n \in Nat, BufPop(n)
  PROVE  BufInv'
<1>1. /\ len_ \in Nat /\ upper_limit_ \in Nat /\ init_alloc_ \in Nat /\ pushed \in Int
      /\ end_ = start_ + len_ /\ Holds(buf_, start_, len_, pushed) /\ buf_ \in Seq(Int)
      /\ start_ \in Nat /\ start_ + len_ <= Len(buf_) /\ Len(buf_) \in Nat
  BY DEF BufInv, Holds
<1>2. UNCHANGED <<upper_limit_, init_alloc_, pushed>> /\ PopBytes(n)
  BY DEF BufPop
<1>3. CASE n >= len_
  <2>1. start_' = 0 /\ end_' = 0 /\ len_' = 0
        /\ buf_' = IF Oversized THEN ShrinkBlock(buf_, 0, 0) ELSE buf_
    BY <1>2, <1>3 DEF PopBytes
  <2>2. ShrinkBlock(buf_, 0, 0) \in Seq(Int)
    BY <1>1, NewBlock, BytesAre, WrittenIs DEF ShrinkBlock
  <2>3. Holds(buf_', 0, 0, pushed)
    BY <1>1, <2>1, <2>2, HoldsNothing
  <2> QED BY <1>1, <1>2, <2>1, <2>3 DEF BufInv
<1>4. CASE ~(n >= len_)
  <2>1. start_' = start_ + n /\ len_' = len_ - n /\ UNCHANGED <<buf_, end_>>
    BY <1>2, <1>4 DEF PopBytes
  <2>2. len_' \in Nat /\ start_' \in Nat /\ end_' = start_' + len_' /\ start_' + len_' <= Len(buf_)
    BY <1>1, <1>4, <2>1
  <2>3. ASSUME NEW i \in 1 .. len_'  PROVE buf_[start_' + i] = (pushed - len_' + i - 1) % Mod
    <3>1. n + i \in 1 .. len_ /\ start_ + (n + i) = start_' + i
          /\ pushed - len_ + (n + i) - 1 = pushed - len_' + i - 1
      BY <1>1, <1>4, <2>1
    <3>2. buf_[start_ + (n + i)] = (pushed - len_ + (n + i) - 1) % Mod
      BY <1>1, <3>1 DEF Holds
    <3> QED BY <3>1, <3>2
  <2>4. Holds(buf_', start_', len_', pushed')
    BY <1>1, <1>2, <2>1, <2>2, <2>3 DEF Holds
  <2> QED BY <1>1, <1>2, <2>2, <2>4 DEF BufInv
<1> QED BY <1>3, <1>4

(* Every operation of buffer_t preserves the invariant.                    *)
LEMMA NextBufInv == BufInv /\ [BufNext]_bufVars => BufInv'
<1> SUFFICES ASSUME BufInv, [BufNext]_bufVars PROVE BufInv'
  OBVIOUS
<1>0. /\ len_ \in Nat /\ upper_limit_ \in Nat /\ init_alloc_ \in Nat /\ pushed \in Int
      /\ end_ = start_ + len_ /\ Holds(buf_, start_, len_, pushed)
      /\ buf_ \in Seq(Int) /\ len_ <= Len(buf_) /\ Len(buf_) \in Nat /\ start_ \in Nat
  BY DEF BufInv, Holds
<1>1. ASSUME NEW room \in PushSizes, NEW size \in PushSizes, BufPush(room, size)  PROVE BufInv'
  BY <1>1, PushInv
<1>2. ASSUME NEW n \in PushSizes, BufPop(n) \/ BufPopTyped(n)  PROVE BufInv'
  BY <1>2, PopInv, BufferAssumption DEF BufPopTyped
<1>3. CASE BufShift
  <2>1. buf_' = Shift.buf /\ start_' = Shift.start /\ end_' = Shift.end
        /\ UNCHANGED <<len_, upper_limit_, init_alloc_, pushed>>
    BY <1>3 DEF BufShift
  <2> QED BY <1>0, <2>1, ShiftKeeps DEF BufInv
<1>4. ASSUME NEW n \in BufSizes \cup {0}, BufReset(n)  PROVE BufInv'
  <2>1. n \in Nat
    BY BufferAssumption
  <2>2. Resized(buf_, n) \in Seq(Int)
    BY <1>0, <2>1, BytesAre DEF Resized
  <2>3. buf_' = Resized(buf_, n) /\ start_' = 0 /\ end_' = 0 /\ len_' = 0
        /\ UNCHANGED <<upper_limit_, init_alloc_, pushed>>
    BY <1>4 DEF BufReset
  <2> QED BY <1>0, <2>2, <2>3, HoldsNothing DEF BufInv
<1>5. ASSUME NEW n \in Limits, SetShrinkLimit(n)  PROVE BufInv'
  BY <1>0, <1>5, BufferAssumption DEF SetShrinkLimit, BufInv
<1>6. CASE BufCopy
  <2> DEFINE d == Resized(NoBytes, alloc_size_)
  <2>1. d \in Seq(Int) /\ Len(d) = Len(buf_)
    BY <1>0, NewBlock DEF alloc_size_
  <2>2. Holds(Written(d, 0, Bytes(buf_, start_, len_)), 0, len_, pushed)
    BY <1>0, <2>1, HoldsCopy
  <2>3. /\ buf_' = Written(d, 0, Bytes(buf_, start_, len_)) /\ start_' = 0 /\ end_' = len_
        /\ upper_limit_' = Len(buf_) * 4 /\ init_alloc_' = Len(buf_) /\ UNCHANGED <<len_, pushed>>
    BY <1>6 DEF BufCopy, alloc_size_
  <2> HIDE DEF d
  <2> QED BY <1>0, <2>2, <2>3 DEF BufInv
<1>7. CASE UNCHANGED bufVars
  BY <1>7 DEF bufVars, BufInv
<1> QED BY <1>1, <1>2, <1>3, <1>4, <1>5, <1>6, <1>7 DEF BufNext

(* buffer_t is a byte stream: for all sizes, limits and growth steps, what *)
(* is in the buffer are the last bytes pushed, in order, through any       *)
(* mixture of push, pop, shift, reset, copy and shrink (ax_buffer.cc).     *)
THEOREM BufferIsStream == BufSpec => []StreamKept
<1>1. BufInv => StreamKept
  BY DEF BufInv, Holds, StreamKept, alloc_size_
<1> QED BY <1>1, InitBufInv, NextBufInv, PTL DEF BufSpec

-----------------------------------------------------------------------------
(***************************************************************************)
(* Queue (core/ax_queue.cc).                                               *)
(***************************************************************************)

(* A message in the block of a chunk, a message not read yet, and a chunk. *)
Entry == [pos : Nat, length : Nat, id : Nat]
Waiting == [length : Nat, id : Nat]
ChunkType ==
  [capacity : Nat, nelems : Nat, prev : Nat, next : Nat, data : SUBSET Entry]

(* Message m, written at p.                                                *)
EntryOf(p, m) == [pos |-> p, length |-> m.length, id |-> m.id]

(* pos lays the messages u out in data, one behind the other from first to *)
(* last, and nothing else starts where one of them does.                   *)
Layout(pos, u, data, first, last) ==
  /\ pos \in [1 .. Len(u) + 1 -> Nat]
  /\ pos[1] = first /\ pos[Len(u) + 1] = last
  /\ \A i \in 1 .. Len(u) + 1 : pos[i] <= last
  /\ \A i \in 1 .. Len(u) :
       /\ pos[i + 1] = pos[i] + VAR_MSG_HLEN + u[i].length
       /\ EntryOf(pos[i], u[i]) \in data
       /\ \A d \in data : d.pos = pos[i] => d = EntryOf(pos[i], u[i])

(* What a caller must see to for the queue to keep its order: the message  *)
(* fits into what is left of the chunk, and its data are long enough that  *)
(* push does not round up what pop steps over (ax_queue.cc:72-77).         *)
PushFits(n) ==
  /\ pos_end_ + TotalLen(n) < chunks[chunk_end_].capacity
  /\ n + VAR_MSG_HLEN >= MsgSize

CarefulNext == QueuePop \/ \E n \in Lengths : PushFits(n) /\ QueuePush(n)
CarefulSpec == QueueInit /\ [][CarefulNext]_queueVars

(* The inductive invariant.  QueueInOrder compares what front and back     *)
(* return with the model of the queue; the positions of all messages       *)
(* between them make it inductive: the unread messages lie in the one      *)
(* chunk, from pos_begin_ to pos_end_, and pos_back_ is the last of them.  *)
InChunk ==
  /\ chunks \in [1 .. 1 -> ChunkType]
  /\ chunk_begin_ = 1 /\ chunk_end_ = 1
  /\ unread \in Seq(Waiting) /\ chunks[1].nelems = Len(unread)
  /\ \E pos \in [1 .. Len(unread) + 1 -> Nat] :
       /\ Layout(pos, unread, chunks[1].data, pos_begin_, pos_end_)
       /\ unread # <<>> => chunk_back_ = 1 /\ pos_back_ = pos[Len(unread)]

(* The constructor (ax_queue.cc:24-36) establishes the invariant.          *)
LEMMA InitInChunk == QueueInit => InChunk
<1> SUFFICES ASSUME QueueInit PROVE InChunk
  OBVIOUS
<1> DEFINE pos == [i \in 1 .. 1 |-> 0]
<1>1. Chunk(EachCapacity) \in ChunkType /\ Chunk(EachCapacity).nelems = 0
  BY QueueAssumption DEF Chunk, ChunkType, NoChunk
<1>2. chunks \in [1 .. 1 -> ChunkType] /\ chunks[1].nelems = 0
  BY <1>1 DEF QueueInit
<1>3. unread \in Seq(Waiting) /\ Len(unread) = 0 /\ unread = <<>>
  BY DEF QueueInit
<1>4. Layout(pos, unread, chunks[1].data, 0, 0) /\ pos \in [1 .. Len(unread) + 1 -> Nat]
  BY <1>3 DEF Layout
<1> QED BY <1>2, <1>3, <1>4 DEF QueueInit, InChunk

(* Data long enough take their header and themselves (ax_queue.cc:72-77).  *)
LEMMA TotalLenIs ==
  ASSUME NEW n \in Nat, n + VAR_MSG_HLEN >= MsgSize
  PROVE  TotalLen(n) = n + VAR_MSG_HLEN
<1> DEFINE S == {n + VAR_MSG_HLEN, MsgSize}
           x == n + VAR_MSG_HLEN
<1>1. x \in Nat /\ MsgSize \in Nat
  BY QueueAssumption
<1>2. x \in S /\ \A y \in S : x >= y
  BY <1>1
<1>3. \A z \in S : (\A y \in S : z >= y) => z = x
  BY <1>1
<1>4. Max(S) = x
  BY <1>2, <1>3 DEF Max
<1> QED BY <1>4 DEF TotalLen

(* A message written at the end is laid out behind the others and over     *)
(* none of them (ax_queue.cc:99-103).                                      *)
LEMMA LayoutPush ==
  ASSUME NEW u \in Seq(Waiting), NEW data \in SUBSET Entry, NEW first, NEW last,
         NEW pos, Layout(pos, u, data, first, last), NEW m \in Waiting
  PROVE  /\ Stored(data, last, m) \in SUBSET Entry
         /\ \E q \in [1 .. Len(u) + 2 -> Nat] :
              /\ Layout(q, Append(u, m), Stored(data, last, m), first,
                        last + (m.length + VAR_MSG_HLEN))
              /\ q[Len(u) + 1] = last
<1> DEFINE k == Len(u)
           v == Append(u, m)
           e == EntryOf(last, m)
           end == last + (m.length + VAR_MSG_HLEN)
           new == Stored(data, last, m)
           q == [i \in 1 .. k + 2 |-> IF i = k + 2 THEN end ELSE pos[i]]
<1>1. /\ VAR_MSG_HLEN \in Nat /\ VAR_MSG_HLEN > 0 /\ k \in Nat /\ pos \in [1 .. k + 1 -> Nat]
      /\ pos[k + 1] = last /\ last \in Nat /\ m.length \in Nat /\ m.id \in Nat
  <2>1. VAR_MSG_HLEN \in Nat /\ VAR_MSG_HLEN > 0 /\ k \in Nat
    BY QueueAssumption
  <2>2. m.length \in Nat /\ m.id \in Nat
    BY DEF Waiting
  <2>3. pos \in [1 .. k + 1 -> Nat] /\ pos[k + 1] = last
    BY DEF Layout
  <2>4. last \in Nat
    BY <2>1, <2>3
  <2> QED BY <2>1, <2>2, <2>3, <2>4
<1>2. end \in Nat /\ last < end
  BY <1>1
<1>3. /\ e \in Entry /\ e.pos = last /\ new \in SUBSET Entry /\ e \in new
      /\ \A d \in new : d # e => d \in data /\ d.pos # last
      /\ \A d \in data : d.pos + VAR_MSG_HLEN + d.length <= last => d \in new
  <2>1. e \in Entry /\ e.pos = last
    BY <1>1 DEF Entry, EntryOf
  <2>2. \A d \in Entry : d.pos \in Nat /\ d.length \in Nat
    BY DEF Entry
  <2>3. new = {d \in data : d.pos + VAR_MSG_HLEN + d.length <= last
                  \/ last + VAR_MSG_HLEN + m.length <= d.pos} \cup {e}
    BY DEF Stored, EntryOf
  <2> HIDE DEF new, e
  <2> QED BY <1>1, <2>1, <2>2, <2>3
<1>4. /\ v \in Seq(Waiting) /\ Len(v) = k + 1 /\ v[k + 1] = m /\ \A i \in 1 .. k : v[i] = u[i]
  BY <1>1
<1>5. /\ q \in [1 .. k + 2 -> Nat] /\ q[k + 2] = end /\ \A i \in 1 .. k + 1 : q[i] = pos[i]
  BY <1>1, <1>2
<1>6. \A i \in 1 .. k : i \in 1 .. k + 1 /\ i + 1 \in 1 .. k + 1
  BY <1>1
<1> HIDE DEF q, v, e, new, end
<1>7. ASSUME NEW i \in 1 .. k
      PROVE  /\ q[i + 1] = q[i] + VAR_MSG_HLEN + v[i].length
             /\ EntryOf(q[i], v[i]) \in new
             /\ \A d \in new : d.pos = q[i] => d = EntryOf(q[i], v[i])
  <2>1. u[i] \in Waiting /\ q[i] = pos[i] /\ q[i + 1] = pos[i + 1] /\ v[i] = u[i] /\ pos[i] \in Nat
    <3>1. u[i] \in Waiting /\ pos[i] \in Nat
      BY <1>1, <1>6
    <3>2. v[i] = u[i]
      BY <1>4
    <3>3. q[i] = pos[i] /\ q[i + 1] = pos[i + 1]
      BY <1>5, <1>6
    <3> QED BY <3>1, <3>2, <3>3
  <2>2. /\ pos[i + 1] = pos[i] + VAR_MSG_HLEN + u[i].length /\ pos[i + 1] <= last
        /\ EntryOf(pos[i], u[i]) \in data
        /\ \A d \in data : d.pos = pos[i] => d = EntryOf(pos[i], u[i])
    BY <1>6 DEF Layout
  <2>3. u[i].length \in Nat /\ EntryOf(pos[i], u[i]).pos = pos[i]
        /\ EntryOf(pos[i], u[i]).length = u[i].length
    BY <2>1 DEF Waiting, EntryOf
  <2>4. EntryOf(pos[i], u[i]) \in new
    BY <1>3, <2>2, <2>3
  <2>5. pos[i] # last
    BY <1>1, <2>1, <2>2, <2>3
  <2>6. \A d \in new : d.pos = pos[i] => d = EntryOf(pos[i], u[i])
    BY <1>3, <2>2, <2>5
  <2> QED BY <2>1, <2>2, <2>4, <2>6
<1>8. /\ q[(k + 1) + 1] = q[k + 1] + VAR_MSG_HLEN + v[k + 1].length
      /\ EntryOf(q[k + 1], v[k + 1]) = e
      /\ \A d \in new : d.pos = q[k + 1] => d = e
  <2>1. q[k + 1] = last /\ v[k + 1] = m /\ q[(k + 1) + 1] = end
    BY <1>1, <1>4, <1>5
  <2>2. end = last + VAR_MSG_HLEN + m.length
    BY <1>1 DEF end
  <2> QED BY <1>3, <2>1, <2>2 DEF e
<1>9. q[1] = first /\ \A i \in 1 .. k + 2 : q[i] <= end
  <2>1. q[1] = first
    BY <1>1, <1>5 DEF Layout
  <2>2. \A i \in 1 .. k + 1 : pos[i] \in Nat /\ pos[i] <= last
    BY <1>1 DEF Layout
  <2>3. ASSUME NEW i \in 1 .. k + 2  PROVE q[i] <= end
    <3>1. CASE i = k + 2
      BY <1>2, <1>5, <3>1
    <3>2. CASE i # k + 2
      <4>1. i \in 1 .. k + 1
        BY <1>1, <3>2
      <4> QED BY <1>1, <1>2, <1>5, <2>2, <4>1
    <3> QED BY <3>1, <3>2
  <2> QED BY <2>1, <2>3
<1>10. Layout(q, v, new, first, end)
  <2>1. Len(v) + 1 = k + 2 /\ \A i \in 1 .. Len(v) : i \in 1 .. k \/ i = k + 1
    BY <1>1, <1>4
  <2>2. \A i \in 1 .. Len(v) :
          /\ q[i + 1] = q[i] + VAR_MSG_HLEN + v[i].length
          /\ EntryOf(q[i], v[i]) \in new
          /\ \A d \in new : d.pos = q[i] => d = EntryOf(q[i], v[i])
    BY <1>3, <1>7, <1>8, <2>1
  <2> QED BY <1>5, <1>9, <2>1, <2>2 DEF Layout
<1>11. q[k + 1] = last
  BY <1>1, <1>5
<1> QED BY <1>3, <1>5, <1>10, <1>11 DEF v, new, end

(* Without its first message the layout starts at the second               *)
(* (ax_queue.cc:116-128).                                                  *)
LEMMA LayoutPop ==
  ASSUME NEW u \in Seq(Waiting), NEW data, NEW first, NEW last,
         NEW pos, Layout(pos, u, data, first, last), u # <<>>
  PROVE  \E q \in [1 .. Len(u) -> Nat] :
           /\ Layout(q, Tail(u), data, first + VAR_MSG_HLEN + u[1].length, last)
           /\ \A i \in 1 .. Len(u) : q[i] = pos[i + 1]
<1> DEFINE k == Len(u)
           v == Tail(u)
           q == [i \in 1 .. k |-> pos[i + 1]]
<1>1. k \in Nat /\ k > 0 /\ pos \in [1 .. k + 1 -> Nat]
  BY DEF Layout
<1>2. v \in Seq(Waiting) /\ Len(v) = k - 1 /\ \A i \in 1 .. k - 1 : v[i] = u[i + 1]
  BY <1>1
<1>3. q \in [1 .. k -> Nat] /\ \A i \in 1 .. k : q[i] = pos[i + 1] /\ i + 1 \in 1 .. k + 1
  BY <1>1
<1> HIDE DEF q, v
<1>4. \A i \in 1 .. k - 1 : i + 1 \in 1 .. k /\ i \in 1 .. k
  BY <1>1
<1>5. q[1] = first + VAR_MSG_HLEN + u[1].length /\ q[k] = last /\ \A i \in 1 .. k : q[i] <= last
  <2>1. 1 \in 1 .. k /\ k \in 1 .. k
    BY <1>1
  <2> QED BY <1>3, <2>1 DEF Layout
<1>6. ASSUME NEW i \in 1 .. k - 1
      PROVE  /\ q[i + 1] = q[i] + VAR_MSG_HLEN + v[i].length
             /\ EntryOf(q[i], v[i]) \in data
             /\ \A d \in data : d.pos = q[i] => d = EntryOf(q[i], v[i])
  <2>1. i + 1 \in 1 .. k /\ q[i] = pos[i + 1] /\ q[i + 1] = pos[(i + 1) + 1] /\ v[i] = u[i + 1]
    BY <1>2, <1>3, <1>4
  <2> QED BY <2>1 DEF Layout
<1>7. Len(v) + 1 = k
  BY <1>1, <1>2
<1>8. Layout(q, v, data, first + VAR_MSG_HLEN + u[1].length, last)
  BY <1>2, <1>3, <1>5, <1>6, <1>7 DEF Layout
<1> QED BY <1>3, <1>8 DEF v

(* A push that finds room for its message, and the data long enough, keeps *)
(* the layout (ax_queue.cc:66-110).                                        *)
LEMMA PushInChunk ==
  ASSUME NEW n \in Lengths, PushFits(n), QueuePush(n), InChunk
  PROVE  InChunk'
<1> DEFINE total == TotalLen(n)
<1>1. PICK m : m = [length |-> n, id |-> IF unread = <<>> THEN 0 ELSE (unread[Len(unread)].id + 1) % 3]
  OBVIOUS
<1>2. /\ InChunk /\ pos_end_ + total < chunks[chunk_end_].capacity
      /\ n + VAR_MSG_HLEN >= MsgSize
  BY DEF PushFits
<1>3. n \in Nat /\ VAR_MSG_HLEN \in Nat /\ MsgSize \in Nat
  BY QueueAssumption
<1>4. total = n + VAR_MSG_HLEN
  BY <1>2, <1>3, TotalLenIs
<1>5. m \in Waiting /\ m.length = n
  <2>1. CASE unread = <<>>
    BY <1>1, <1>3, <2>1 DEF Waiting
  <2>2. CASE unread # <<>>
    <3>1. unread[Len(unread)] \in Waiting
      BY <1>2, <2>2 DEF InChunk
    <3>2. unread[Len(unread)].id \in Nat
      BY <3>1 DEF Waiting
    <3>3. (unread[Len(unread)].id + 1) % 3 \in Nat
      BY <3>2
    <3> QED BY <1>1, <1>3, <2>2, <3>3 DEF Waiting
  <2> QED BY <2>1, <2>2
<1>6. /\ chunks' = [chunks EXCEPT ![1].data = Stored(@, pos_end_, m), ![1].nelems = @ + 1]
      /\ chunk_back_' = 1 /\ pos_back_' = pos_end_ /\ pos_end_' = pos_end_ + (m.length + VAR_MSG_HLEN)
      /\ unread' = Append(unread, m)
      /\ chunk_begin_' = 1 /\ pos_begin_' = pos_begin_ /\ chunk_end_' = 1
  <2>1. chunk_end_ = 1 /\ chunk_begin_ = 1
    BY <1>2 DEF InChunk
  <2> DEFINE fits == pos_end_ + total < chunks[chunk_end_].capacity
             c == IF fits THEN [chunks |-> chunks, spare |-> chunk_spare_] ELSE Extended(total)
             p == IF fits THEN pos_end_ ELSE 0
  <2>2. c.chunks = chunks /\ p = pos_end_
    BY <1>2
  <2>3. /\ chunks' = [c.chunks EXCEPT ![chunk_end_].data = Stored(@, p, m),
                                      ![chunk_end_].nelems = @ + 1]
        /\ chunk_back_' = chunk_end_ /\ pos_back_' = p /\ pos_end_' = p + total
        /\ unread' = Append(unread, m)
        /\ UNCHANGED <<chunk_begin_, pos_begin_, chunk_end_>>
    BY <1>1 DEF QueuePush
  <2> HIDE DEF c, p, total
  <2>4. chunks' = [chunks EXCEPT ![1].data = Stored(@, pos_end_, m), ![1].nelems = @ + 1]
    BY <2>1, <2>2, <2>3
  <2> QED BY <1>4, <1>5, <2>1, <2>2, <2>3, <2>4
<1>7. PICK pos : /\ Layout(pos, unread, chunks[1].data, pos_begin_, pos_end_)
  BY <1>2 DEF InChunk
<1>8. /\ unread \in Seq(Waiting) /\ chunks \in [1 .. 1 -> ChunkType] /\ chunks[1].nelems = Len(unread)
      /\ chunks[1].data \in SUBSET Entry /\ chunks[1].nelems \in Nat /\ chunks[1] \in ChunkType
  BY <1>2 DEF InChunk, ChunkType
<1>9. /\ Stored(chunks[1].data, pos_end_, m) \in SUBSET Entry
      /\ \E q \in [1 .. Len(unread) + 2 -> Nat] :
           /\ Layout(q, Append(unread, m), Stored(chunks[1].data, pos_end_, m), pos_begin_,
                     pos_end_ + (m.length + VAR_MSG_HLEN))
           /\ q[Len(unread) + 1] = pos_end_
  <2>1. PICK u, data, first, last :
          u = unread /\ data = chunks[1].data /\ first = pos_begin_ /\ last = pos_end_
    OBVIOUS
  <2>2. /\ u \in Seq(Waiting) /\ data \in SUBSET Entry /\ Layout(pos, u, data, first, last)
        /\ m \in Waiting
    BY <1>5, <1>7, <1>8, <2>1
  <2>3. /\ Stored(data, last, m) \in SUBSET Entry
        /\ \E q \in [1 .. Len(u) + 2 -> Nat] :
             /\ Layout(q, Append(u, m), Stored(data, last, m), first,
                       last + (m.length + VAR_MSG_HLEN))
             /\ q[Len(u) + 1] = last
    BY <2>2, LayoutPush
  <2> QED BY <2>1, <2>3
<1>10. PICK q \in [1 .. Len(unread) + 2 -> Nat] :
           /\ Layout(q, Append(unread, m), Stored(chunks[1].data, pos_end_, m), pos_begin_,
                     pos_end_ + (m.length + VAR_MSG_HLEN))
           /\ q[Len(unread) + 1] = pos_end_
  BY <1>9
<1>11. /\ unread' \in Seq(Waiting) /\ Len(unread') = Len(unread) + 1
  BY <1>5, <1>6, <1>8
<1>12. /\ chunks' \in [1 .. 1 -> ChunkType] /\ chunks'[1].nelems = Len(unread')
       /\ chunks'[1].data = Stored(chunks[1].data, pos_end_, m)
  <2> DEFINE x == [chunks EXCEPT ![1].data = Stored(@, pos_end_, m)]
  <2>0. chunks' = [x EXCEPT ![1].nelems = @ + 1]
    BY <1>6
  <2>1. /\ x \in [1 .. 1 -> ChunkType] /\ x[1].nelems = chunks[1].nelems
        /\ x[1].data = Stored(chunks[1].data, pos_end_, m)
    <3> DEFINE S == Stored(chunks[1].data, pos_end_, m)
               r == [chunks[1] EXCEPT !.data = S]
    <3>1. x = [chunks EXCEPT ![1] = r]
      BY <1>8
    <3> HIDE DEF S, x
    <3>2. S \in SUBSET Entry
      BY <1>9 DEF S
    <3>3. r \in ChunkType /\ r.nelems = chunks[1].nelems /\ r.data = S
      BY <1>8, <3>2 DEF ChunkType
    <3> HIDE DEF r
    <3>4. x \in [1 .. 1 -> ChunkType] /\ x[1] = r
      BY <1>8, <3>1, <3>3
    <3> QED BY <3>3, <3>4 DEF S
  <2> HIDE DEF x
  <2>2. chunks'[1] \in ChunkType /\ chunks'[1].nelems = chunks[1].nelems + 1
        /\ chunks'[1].data = Stored(chunks[1].data, pos_end_, m)
    <3>1. x[1] \in ChunkType /\ x[1].nelems + 1 \in Nat
      BY <1>8, <2>1
    <3>2. chunks'[1] = [x[1] EXCEPT !.nelems = x[1].nelems + 1]
      BY <2>0, <2>1
    <3> QED BY <2>1, <3>1, <3>2 DEF ChunkType
  <2>3. chunks' \in [1 .. 1 -> ChunkType]
    BY <2>0, <2>1, <2>2
  <2> QED BY <1>8, <1>11, <2>2, <2>3
<1>13. Layout(q, unread', chunks'[1].data, pos_begin_', pos_end_')
  BY <1>6, <1>10, <1>12
<1>14. q \in [1 .. Len(unread') + 1 -> Nat] /\ pos_back_' = q[Len(unread')]
  BY <1>6, <1>8, <1>10, <1>11
<1> QED BY <1>6, <1>11, <1>12, <1>13, <1>14 DEF InChunk

(* A pop takes the message at the front, steps over its bytes, and starts  *)
(* the chunk over when it was the last one (ax_queue.cc:116-152).          *)
LEMMA PopInChunk ==
  ASSUME QueuePop, InChunk
  PROVE  InChunk'
<1>1. InChunk /\ unread' = Tail(unread) /\ chunk_end_' = chunk_end_ /\ chunks[1].nelems > 0
  BY DEF QueuePop, InChunk
<1>2. /\ unread \in Seq(Waiting) /\ chunks \in [1 .. 1 -> ChunkType] /\ chunks[1].nelems = Len(unread)
      /\ chunks[1] \in ChunkType /\ chunk_begin_ = 1 /\ chunk_end_ = 1
      /\ Len(unread) \in Nat /\ Len(unread) > 0 /\ unread # <<>>
  BY <1>1 DEF InChunk
<1>3. PICK pos : /\ Layout(pos, unread, chunks[1].data, pos_begin_, pos_end_)
                 /\ chunk_back_ = 1 /\ pos_back_ = pos[Len(unread)]
  BY <1>1, <1>2 DEF InChunk
<1> DEFINE c == [chunks EXCEPT ![1].nelems = @ - 1]
<1>4. QueueFront = {EntryOf(pos[1], unread[1])}
  <2>1. 1 \in 1 .. Len(unread) /\ pos[1] = pos_begin_
    BY <1>2, <1>3 DEF Layout
  <2>2. /\ EntryOf(pos[1], unread[1]) \in chunks[1].data
        /\ \A d \in chunks[1].data : d.pos = pos[1] => d = EntryOf(pos[1], unread[1])
    BY <1>3, <2>1 DEF Layout
  <2> QED BY <1>2, <2>1, <2>2 DEF QueueFront, EntryOf
<1>5. IF c[1].nelems = 0 THEN EmptyChunk(c) /\ pos_begin_' = 0
      ELSE /\ chunks' = c
           /\ pos_begin_' = pos_begin_ + VAR_MSG_HLEN + unread[1].length
           /\ UNCHANGED <<chunk_begin_, chunk_back_, pos_back_, pos_end_>>
  <2>1. QueueFront # {} /\ {d.length : d \in QueueFront} = {unread[1].length}
    BY <1>4 DEF EntryOf
  <2> QED BY <1>2, <2>1 DEF QueuePop
<1>6. /\ c \in [1 .. 1 -> ChunkType] /\ c[1].nelems = Len(unread) - 1 /\ c[1].data = chunks[1].data
  <2>1. c[1] = [chunks[1] EXCEPT !.nelems = chunks[1].nelems - 1]
    BY <1>2
  <2>2. c[1] \in ChunkType /\ c[1].nelems = Len(unread) - 1 /\ c[1].data = chunks[1].data
    BY <1>2, <2>1 DEF ChunkType
  <2> QED BY <1>2, <2>2
<1>7. unread' \in Seq(Waiting) /\ Len(unread') = Len(unread) - 1
  BY <1>1, <1>2
<1> HIDE DEF c
<1>8. CASE c[1].nelems = 0
  <2>1. /\ chunks' = c /\ chunk_begin_' = 1 /\ pos_begin_' = 0 /\ pos_end_' = 0
    BY <1>2, <1>3, <1>5, <1>8 DEF EmptyChunk
  <2>2. Len(unread') = 0 /\ unread' = <<>>
    BY <1>6, <1>7, <1>8
  <2>3. PICK q : q = [i \in 1 .. 1 |-> 0]
    OBVIOUS
  <2>4. Layout(q, unread', chunks'[1].data, pos_begin_', pos_end_') /\ q \in [1 .. Len(unread') + 1 -> Nat]
    BY <2>1, <2>2, <2>3 DEF Layout
  <2> QED BY <1>1, <1>2, <1>6, <1>7, <2>1, <2>2, <2>4 DEF InChunk
<1>9. CASE c[1].nelems # 0
  <2>1. /\ chunks' = c /\ pos_begin_' = pos_begin_ + VAR_MSG_HLEN + unread[1].length
        /\ chunk_begin_' = 1 /\ chunk_back_' = 1 /\ pos_back_' = pos_back_ /\ pos_end_' = pos_end_
    BY <1>2, <1>3, <1>5, <1>9
  <2>2. PICK q \in [1 .. Len(unread) -> Nat] :
           /\ Layout(q, Tail(unread), chunks[1].data,
                     pos_begin_ + VAR_MSG_HLEN + unread[1].length, pos_end_)
           /\ \A i \in 1 .. Len(unread) : q[i] = pos[i + 1]
    BY <1>2, <1>3, LayoutPop
  <2>3. Layout(q, unread', chunks'[1].data, pos_begin_', pos_end_')
    BY <1>1, <1>6, <2>1, <2>2
  <2>4. /\ Len(unread') \in 1 .. Len(unread) /\ Len(unread') + 1 = Len(unread)
    BY <1>2, <1>6, <1>7, <1>9
  <2>5. pos_back_' = q[Len(unread')]
    BY <1>3, <2>1, <2>2, <2>4
  <2> QED BY <1>1, <1>2, <1>6, <1>7, <2>1, <2>2, <2>3, <2>4, <2>5 DEF InChunk
<1> QED BY <1>8, <1>9

(* Every operation of a careful caller preserves the invariant.            *)
LEMMA NextInChunk == InChunk /\ [CarefulNext]_queueVars => InChunk'
<1> SUFFICES ASSUME InChunk, [CarefulNext]_queueVars PROVE InChunk'
  OBVIOUS
<1>1. CASE QueuePop
  BY <1>1, PopInChunk
<1>2. CASE \E n \in Lengths : PushFits(n) /\ QueuePush(n)
  BY <1>2, PushInChunk
<1>3. CASE UNCHANGED queueVars
  BY <1>3 DEF queueVars, InChunk
<1> QED BY <1>1, <1>2, <1>3 DEF CarefulNext

(* For a caller that never pushes more than the chunk has room for, front()*)
(* is the oldest message and back() the newest, for all lengths and        *)
(* capacities (ax_queue.cc:66-165).  Without that care it is not so: see   *)
(* QueueInOrder.                                                           *)
THEOREM QueueFirstInFirstOut == CarefulSpec => []QueueInOrder
<1>1. InChunk => QueueInOrder
  <2> SUFFICES ASSUME InChunk, unread # <<>> PROVE QueueInOrder
    BY DEF QueueInOrder
  <2>1. PICK pos : /\ Layout(pos, unread, chunks[1].data, pos_begin_, pos_end_)
                   /\ chunk_back_ = 1 /\ pos_back_ = pos[Len(unread)]
    BY DEF InChunk
  <2>2. 1 \in 1 .. Len(unread) /\ Len(unread) \in 1 .. Len(unread) /\ chunk_begin_ = 1
    BY DEF InChunk
  <2>3. /\ EntryOf(pos[1], unread[1]) \in chunks[1].data /\ pos[1] = pos_begin_
        /\ EntryOf(pos[Len(unread)], unread[Len(unread)]) \in chunks[1].data
    BY <2>1, <2>2 DEF Layout
  <2> QED BY <2>1, <2>2, <2>3 DEF QueueInOrder, QueueFront, EntryOf
<1> QED BY <1>1, InitInChunk, NextInChunk, PTL DEF CarefulSpec

(* The inductive invariant behind QueueCounts, for any caller: the reader  *)
(* and the writer never leave the first chunk, and no chunk is spared.     *)
CountInv ==
  /\ chunks \in Seq(ChunkType) /\ Len(chunks) > 0
  /\ chunk_begin_ = 1 /\ chunk_end_ = 1 /\ chunk_spare_ = NoChunk
  /\ pos_end_ \in Nat /\ unread \in Seq(Waiting)
  /\ nelems_ = Len(unread) /\ chunks[1].nelems = Len(unread)
  /\ chunk_back_ = IF unread = <<>> THEN NoChunk ELSE 1

(* What a message takes of its chunk is a length (ax_queue.cc:72-77).      *)
LEMMA TotalLenNat == ASSUME NEW n \in Nat PROVE TotalLen(n) \in Nat
<1> DEFINE S == {n + VAR_MSG_HLEN, MsgSize}
<1>1. n + VAR_MSG_HLEN \in Nat /\ MsgSize \in Nat
  BY QueueAssumption
<1>2. \E x \in S : \A y \in S : x >= y
  BY <1>1
<1>3. Max(S) \in S
  BY <1>2 DEF Max
<1> QED BY <1>1, <1>3 DEF TotalLen

(* A full chunk gets another one linked behind it, and stays what it was   *)
(* otherwise (ax_queue.cc:81-96).                                          *)
LEMMA ExtendedKeeps ==
  ASSUME CountInv, NEW total \in Nat
  PROVE  /\ Extended(total).spare = NoChunk
         /\ Extended(total).chunks \in Seq(ChunkType) /\ Len(Extended(total).chunks) > 0
         /\ Extended(total).chunks[1].nelems = chunks[1].nelems
<1> DEFINE n == Len(chunks) + 1
           fresh == Chunk(Max({EachCapacity, total}))
           all == Append(chunks, fresh)
           more == [all EXCEPT ![n] = [all[n] EXCEPT !.next = NoChunk, !.prev = 1]]
<1>1. fresh \in ChunkType
  <2>1. \E x \in {EachCapacity, total} : \A y \in {EachCapacity, total} : x >= y
    BY QueueAssumption
  <2>2. Max({EachCapacity, total}) \in Nat
    BY <2>1, QueueAssumption DEF Max
  <2> QED BY <2>2 DEF Chunk, ChunkType, NoChunk
<1> HIDE DEF fresh
<1>2. /\ all \in Seq(ChunkType) /\ Len(all) = n /\ n \in Nat /\ n > 1
      /\ all[1] = chunks[1] /\ all[n] \in ChunkType
  BY <1>1 DEF CountInv
<1>3. /\ Extended(total).spare = NoChunk
      /\ Extended(total).chunks = [more EXCEPT ![1] = [more[1] EXCEPT !.next = n]]
  BY <1>2 DEF Extended, CountInv, fresh
<1> HIDE DEF all
<1>4. [all[n] EXCEPT !.next = NoChunk, !.prev = 1] \in ChunkType
  BY <1>2 DEF ChunkType, NoChunk
<1>5. more \in Seq(ChunkType) /\ Len(more) = n /\ more[1] = chunks[1] /\ more[1] \in ChunkType
  BY <1>2, <1>4
<1> HIDE DEF more
<1>6. /\ [more[1] EXCEPT !.next = n] \in ChunkType
      /\ [more[1] EXCEPT !.next = n].nelems = chunks[1].nelems
  BY <1>2, <1>5 DEF ChunkType
<1> QED BY <1>2, <1>3, <1>5, <1>6

(* A push counts its message in the first chunk, full or not               *)
(* (ax_queue.cc:66-110).                                                   *)
LEMMA PushCountInv ==
  ASSUME NEW n \in Lengths, QueuePush(n), CountInv
  PROVE  CountInv'
<1> DEFINE total == TotalLen(n)
           fits == pos_end_ + total < chunks[chunk_end_].capacity
           c == IF fits THEN [chunks |-> chunks, spare |-> chunk_spare_] ELSE Extended(total)
           p == IF fits THEN pos_end_ ELSE 0
<1>1. PICK m : m = [length |-> n, id |-> IF unread = <<>> THEN 0 ELSE (unread[Len(unread)].id + 1) % 3]
  OBVIOUS
<1>2. n \in Nat /\ total \in Nat /\ p \in Nat
  BY QueueAssumption, TotalLenNat DEF CountInv
<1>3. m \in Waiting /\ m.length \in Nat /\ m.id \in Nat
  <2>1. CASE unread = <<>>
    BY <1>1, <1>2, <2>1 DEF Waiting
  <2>2. CASE unread # <<>>
    <3>1. unread[Len(unread)] \in Waiting
      BY <2>2 DEF CountInv
    <3>2. (unread[Len(unread)].id + 1) % 3 \in Nat
      BY <3>1 DEF Waiting
    <3> QED BY <1>1, <1>2, <2>2, <3>2 DEF Waiting
  <2> QED BY <2>1, <2>2
<1>4. /\ c.spare = NoChunk /\ c.chunks \in Seq(ChunkType) /\ Len(c.chunks) > 0
      /\ c.chunks[1].nelems = Len(unread)
  BY <1>2, ExtendedKeeps DEF CountInv
<1>5. /\ chunks' = [c.chunks EXCEPT ![1].data = Stored(@, p, m), ![1].nelems = @ + 1]
      /\ chunk_spare_' = c.spare /\ chunk_back_' = 1 /\ pos_end_' = p + total
      /\ nelems_' = nelems_ + 1 /\ unread' = Append(unread, m)
      /\ chunk_begin_' = 1 /\ chunk_end_' = 1
  BY <1>1 DEF QueuePush, CountInv
<1> HIDE DEF c, p, total
<1>6. PICK a : a = c.chunks
  OBVIOUS
<1> DEFINE S == Stored(a[1].data, p, m)
           x == [a EXCEPT ![1] = [a[1] EXCEPT !.data = S]]
<1>7. a \in Seq(ChunkType) /\ Len(a) > 0 /\ a[1] \in ChunkType /\ a[1].nelems = Len(unread)
  BY <1>4, <1>6
<1>8. S \in SUBSET Entry
  <2>1. a[1].data \in SUBSET Entry
    BY <1>7 DEF ChunkType
  <2>2. [pos |-> p, length |-> m.length, id |-> m.id] \in Entry
    BY <1>2, <1>3 DEF Entry
  <2> QED BY <2>1, <2>2 DEF Stored
<1> HIDE DEF S
<1>9. [a[1] EXCEPT !.data = S] \in ChunkType /\ [a[1] EXCEPT !.data = S].nelems = Len(unread)
  BY <1>7, <1>8 DEF ChunkType
<1>10. x \in Seq(ChunkType) /\ Len(x) > 0 /\ x[1] \in ChunkType /\ x[1].nelems = Len(unread)
  BY <1>7, <1>9
<1>11. chunks' = [x EXCEPT ![1] = [x[1] EXCEPT !.nelems = Len(unread) + 1]]
  BY <1>5, <1>6, <1>7, <1>10 DEF S
<1> HIDE DEF x
<1>12. /\ [x[1] EXCEPT !.nelems = Len(unread) + 1] \in ChunkType
       /\ [x[1] EXCEPT !.nelems = Len(unread) + 1].nelems = Len(unread) + 1
  <2>1. Len(unread) + 1 \in Nat
    BY DEF CountInv
  <2> QED BY <1>10, <2>1 DEF ChunkType
<1>13. chunks' \in Seq(ChunkType) /\ Len(chunks') > 0 /\ chunks'[1].nelems = Len(unread) + 1
  BY <1>10, <1>11, <1>12
<1>14. unread' \in Seq(Waiting) /\ Len(unread') = Len(unread) + 1 /\ unread' # <<>>
  BY <1>3, <1>5 DEF CountInv
<1>15. pos_end_' \in Nat /\ nelems_' = Len(unread')
  BY <1>2, <1>5, <1>14 DEF CountInv
<1>16. chunk_back_' = IF unread' = <<>> THEN NoChunk ELSE 1
  BY <1>5, <1>14
<1>17. chunk_begin_' = 1 /\ chunk_end_' = 1 /\ chunk_spare_' = NoChunk
  BY <1>4, <1>5
<1> QED BY <1>13, <1>14, <1>15, <1>16, <1>17 DEF CountInv

(* A pop takes its message off both counts, and the last one resets the    *)
(* chunk; the branch that would leave it is never taken                    *)
(* (ax_queue.cc:116-152).                                                  *)
LEMMA PopCountInv ==
  ASSUME QueuePop, CountInv
  PROVE  CountInv'
<1> DEFINE c == [chunks EXCEPT ![1] = [chunks[1] EXCEPT !.nelems = Len(unread) - 1]]
<1>1. /\ chunks[1] \in ChunkType /\ Len(unread) \in Nat /\ Len(unread) > 0 /\ unread # <<>>
      /\ unread' = Tail(unread) /\ nelems_' = nelems_ - 1 /\ chunk_end_' = 1
      /\ chunk_spare_' = NoChunk /\ chunk_back_ = 1
  BY DEF QueuePop, CountInv
<1>2. [chunks EXCEPT ![chunk_begin_].nelems = @ - 1] = c
  BY <1>1 DEF CountInv
<1>3. /\ [chunks[1] EXCEPT !.nelems = Len(unread) - 1] \in ChunkType
      /\ [chunks[1] EXCEPT !.nelems = Len(unread) - 1].nelems = Len(unread) - 1
  BY <1>1 DEF ChunkType
<1>4. c \in Seq(ChunkType) /\ Len(c) > 0 /\ c[1].nelems = Len(unread) - 1
  BY <1>3 DEF CountInv
<1>5. unread' \in Seq(Waiting) /\ Len(unread') = Len(unread) - 1
  BY <1>1 DEF CountInv
<1>6. IF c[1].nelems = 0 THEN EmptyChunk(c)
      ELSE chunks' = c /\ UNCHANGED <<chunk_begin_, chunk_back_, pos_back_, pos_end_>>
  BY <1>2 DEF QueuePop, CountInv
<1> HIDE DEF c
<1>7. CASE c[1].nelems = 0
  <2>1. chunks' = c /\ chunk_back_' = NoChunk /\ pos_end_' = 0 /\ chunk_begin_' = 1
    BY <1>1, <1>6, <1>7 DEF EmptyChunk, CountInv
  <2>2. unread' = <<>>
    BY <1>4, <1>5, <1>7
  <2> QED BY <1>1, <1>4, <1>5, <2>1, <2>2 DEF CountInv
<1>8. CASE c[1].nelems # 0
  <2>1. chunks' = c /\ chunk_back_' = 1 /\ pos_end_' = pos_end_ /\ chunk_begin_' = 1
    BY <1>1, <1>6, <1>8 DEF CountInv
  <2>2. unread' # <<>>
    BY <1>1, <1>4, <1>5, <1>8
  <2> QED BY <1>1, <1>4, <1>5, <2>1, <2>2 DEF CountInv
<1> QED BY <1>7, <1>8

(* For every caller and every length and capacity, count() is the number   *)
(* of messages that wait, and pop neither fails its assertion nor follows  *)
(* a missing chunk (ax_queue.cc:116-152).                                  *)
THEOREM QueueCountsRight == QueueSpec => []QueueCounts
<1>1. QueueInit => CountInv
  BY QueueAssumption DEF QueueInit, CountInv, Chunk, ChunkType, NoChunk
<1>2. CountInv /\ [QueueNext]_queueVars => CountInv'
  <2> SUFFICES ASSUME CountInv, [QueueNext]_queueVars PROVE CountInv'
    OBVIOUS
  <2>1. CASE QueuePop
    BY <2>1, PopCountInv
  <2>2. CASE \E n \in Lengths : QueuePush(n)
    BY <2>2, PushCountInv
  <2>3. CASE UNCHANGED queueVars
    BY <2>3 DEF queueVars, CountInv
  <2> QED BY <2>1, <2>2, <2>3 DEF QueueNext
<1>3. CountInv => QueueCounts
  BY DEF CountInv, QueueCounts
<1> QED BY <1>1, <1>2, <1>3, PTL DEF QueueSpec

-----------------------------------------------------------------------------
(***************************************************************************)
(* StringT (core/ax_string.cc).                                            *)
(***************************************************************************)

(* A string object.                                                        *)
StrType ==
  [type : {"SMALL_STR", "LARGER_STR"}, text : Seq(Int), len : Nat, capacity : Nat]

(* The string s holds the text t, with the capacity of its layout.         *)
HoldsText(s, t) ==
  /\ s.text = t /\ s.len = Len(t) /\ s.len <= s.capacity
  /\ s.type = "SMALL_STR" => s.capacity = MAX_SMALL_LEN

(* The inductive invariant: a string that is not misused holds its text.   *)
StrInv ==
  /\ str \in [Strings -> StrType] /\ want \in [Strings -> Seq(Int)]
  /\ \A i \in Strings \ misused : HoldsText(str[i], want[i])

(* Short text fits into the object (ax_string.h:59-76).                    *)
LEMMA SmallHolds ==
  ASSUME NEW t \in Seq(Int), Len(t) <= MAX_SMALL_LEN
  PROVE  Small(t) \in StrType /\ HoldsText(Small(t), t)
BY StringAssumption DEF Small, StrType, HoldsText

(* The constructor from a C string and assign (ax_string.cc:36-55, 85-102) *)
(* choose a layout with room for the text.                                 *)
LEMMA FromCstrHolds ==
  ASSUME NEW t \in Seq(Int)
  PROVE  FromCstr(t) \in StrType /\ HoldsText(FromCstr(t), t)
<1>1. CASE Len(t) <= MAX_SMALL_LEN
  BY <1>1, SmallHolds DEF FromCstr
<1>2. CASE ~(Len(t) <= MAX_SMALL_LEN)
  <2>1. Larger(t, Len(t)) \in StrType /\ HoldsText(Larger(t, Len(t)), t)
    BY DEF Larger, StrType, HoldsText
  <2> QED BY <1>2, <2>1 DEF FromCstr
<1> QED BY <1>1, <1>2

(* So does a copy, which has the room its text needs (ax_string.cc:15-33). *)
LEMMA CopyHolds ==
  ASSUME NEW s \in StrType
  PROVE  CopyOf(s) \in StrType /\ \A t : HoldsText(s, t) => HoldsText(CopyOf(s), t)
BY DEF CopyOf, StrType, HoldsText

(* expand keeps the text, unless there is none and the string gets a block *)
(* (ax_string.cc:141-166).                                                 *)
LEMMA ExpandHolds ==
  ASSUME NEW s \in StrType, NEW n \in Nat
  PROVE  /\ Expanded(s, n) \in StrType
         /\ \A t \in Seq(Int) :
              HoldsText(s, t) /\ ~(t = <<>> /\ n >= MAX_SMALL_LEN) =>
                /\ HoldsText(Expanded(s, n), t)
                /\ n > MAX_SMALL_LEN => /\ Expanded(s, n).type = "LARGER_STR"
                                        /\ n <= Expanded(s, n).capacity
<1> DEFINE e == Expanded(s, n)
           x == IF s.len > 0 THEN s.text ELSE Uninit
           l == [Larger(x, n) EXCEPT !.len = s.len]
<1>0. MAX_SMALL_LEN \in Nat
  BY StringAssumption
<1>1. CASE n < MAX_SMALL_LEN
  BY <1>0, <1>1 DEF Expanded
<1>2. CASE ~(n < MAX_SMALL_LEN) /\ s.type = "SMALL_STR"
  <2>1. e = l
    BY <1>2 DEF Expanded
  <2>2. x \in Seq(Int)
    BY DEF StrType, Uninit
  <2> HIDE DEF x, e
  <2>3. l = [type |-> "LARGER_STR", text |-> x, len |-> s.len, capacity |-> n] /\ l \in StrType
    BY <2>2 DEF Larger, StrType
  <2>4. ASSUME NEW t \in Seq(Int), HoldsText(s, t), ~(t = <<>> /\ n >= MAX_SMALL_LEN)
        PROVE  HoldsText(l, t) /\ l.type = "LARGER_STR" /\ n <= l.capacity
    <3>1. t # <<>> /\ Len(t) > 0 /\ s.len = Len(t) /\ s.text = t /\ s.len <= MAX_SMALL_LEN
      BY <1>0, <1>2, <2>4 DEF HoldsText
    <3>2. x = t
      BY <3>1 DEF x
    <3> QED BY <1>0, <1>2, <2>3, <3>1, <3>2 DEF HoldsText
  <2> HIDE DEF l
  <2> QED BY <2>1, <2>3, <2>4 DEF e
<1>3. CASE ~(n < MAX_SMALL_LEN) /\ s.type # "SMALL_STR"
  <2>1. s.type = "LARGER_STR" /\ s.capacity \in Nat /\ s.len \in Nat
    BY <1>3 DEF StrType
  <2>2. CASE n > s.capacity
    <3>1. e = [s EXCEPT !.capacity = n]
      BY <1>3, <2>2 DEF Expanded
    <3>2. /\ e \in StrType /\ e.type = s.type /\ e.text = s.text /\ e.len = s.len /\ e.capacity = n
      BY <3>1 DEF StrType
    <3> HIDE DEF e
    <3>3. ASSUME NEW t \in Seq(Int), HoldsText(s, t)  PROVE HoldsText(e, t)
      BY <2>1, <2>2, <3>2, <3>3 DEF HoldsText
    <3> QED BY <2>1, <3>2, <3>3 DEF e
  <2>3. CASE ~(n > s.capacity)
    <3>1. e = s
      BY <1>3, <2>3 DEF Expanded
    <3> QED BY <2>1, <2>3, <3>1
  <2> QED BY <2>2, <2>3
<1> QED BY <1>1, <1>2, <1>3

(* strcat appends, except in the two uses the code gets wrong              *)
(* (ax_string.cc:169-189).                                                 *)
LEMMA AppendHolds ==
  ASSUME NEW s \in StrType, NEW t \in Seq(Int)
  PROVE  /\ Appended(s, t) \in StrType
         /\ \A w \in Seq(Int) :
              /\ HoldsText(s, w)
              /\ ~(s.type = "LARGER_STR" /\ Len(w \o t) <= MAX_SMALL_LEN)
              /\ ~(w = <<>> /\ Len(t) > MAX_SMALL_LEN)
              => HoldsText(Appended(s, t), w \o t)
<1> DEFINE n == s.len + Len(t)
           e == IF n > s.capacity THEN Expanded(s, n) ELSE s
           a == Appended(s, t)
<1>0. MAX_SMALL_LEN \in Nat /\ n \in Nat /\ s.len \in Nat /\ s.capacity \in Nat /\ Len(t) \in Nat
  BY StringAssumption DEF StrType
<1>1. a = IF n > MAX_SMALL_LEN \/ e.type = "SMALL_STR"
          THEN [e EXCEPT !.text = e.text \o t, !.len = n] ELSE [e EXCEPT !.text = Wild]
  BY DEF Appended
<1>2. e \in StrType
  BY <1>0, ExpandHolds
<1>3. ASSUME NEW w \in Seq(Int), HoldsText(s, w),
             ~(s.type = "LARGER_STR" /\ Len(w \o t) <= MAX_SMALL_LEN),
             ~(w = <<>> /\ Len(t) > MAX_SMALL_LEN)
      PROVE  /\ e.text = w /\ n = Len(w \o t) /\ n <= e.capacity
             /\ e.type = "SMALL_STR" => e.capacity = MAX_SMALL_LEN
             /\ n > MAX_SMALL_LEN \/ e.type = "SMALL_STR"
  <2>1. n = Len(w) + Len(t) /\ Len(w \o t) = n /\ s.text = w /\ s.len = Len(w) /\ Len(w) \in Nat
    BY <1>3 DEF HoldsText
  <2>2. CASE n > s.capacity
    <3>1. n > MAX_SMALL_LEN
      <4>1. CASE s.type = "SMALL_STR"
        BY <1>3, <2>2, <4>1 DEF HoldsText
      <4>2. CASE s.type = "LARGER_STR"
        BY <1>0, <1>3, <2>1, <4>2
      <4> QED BY <4>1, <4>2 DEF StrType
    <3>2. ~(w = <<>> /\ n >= MAX_SMALL_LEN)
      BY <1>0, <1>3, <2>1, <3>1
    <3>3. /\ HoldsText(Expanded(s, n), w) /\ Expanded(s, n).type = "LARGER_STR"
          /\ n <= Expanded(s, n).capacity
      BY <1>0, <1>3, <3>1, <3>2, ExpandHolds
    <3>4. e = Expanded(s, n)
      BY <2>2
    <3> QED BY <2>1, <3>1, <3>3, <3>4 DEF HoldsText
  <2>3. CASE ~(n > s.capacity)
    <3>1. e = s /\ n <= s.capacity
      BY <1>0, <2>3
    <3>2. s.type = "SMALL_STR" \/ n > MAX_SMALL_LEN
      BY <1>0, <1>3, <2>1 DEF StrType
    <3> QED BY <1>3, <2>1, <3>1, <3>2 DEF HoldsText
  <2> QED BY <2>2, <2>3
<1> HIDE DEF e, a, n
<1>4. e.text \in Seq(Int) /\ Wild \in Seq(Int)
  BY <1>2 DEF StrType, Wild
<1>5. e.text \o t \in Seq(Int)
  BY <1>4
<1>6. a \in StrType
  BY <1>0, <1>1, <1>2, <1>4, <1>5 DEF StrType
<1>7. ASSUME n > MAX_SMALL_LEN \/ e.type = "SMALL_STR"
      PROVE  a.text = e.text \o t /\ a.len = n /\ a.capacity = e.capacity /\ a.type = e.type
  BY <1>1, <1>2, <1>7 DEF StrType
<1>8. ASSUME NEW w \in Seq(Int), HoldsText(s, w),
             ~(s.type = "LARGER_STR" /\ Len(w \o t) <= MAX_SMALL_LEN),
             ~(w = <<>> /\ Len(t) > MAX_SMALL_LEN)
      PROVE  HoldsText(a, w \o t)
  BY <1>3, <1>7, <1>8 DEF HoldsText
<1> QED BY <1>6, <1>8 DEF a

(* The constructors (ax_string.cc:9-55) establish the invariant.           *)
LEMMA InitStrInv == StrInit => StrInv
<1> SUFFICES ASSUME StrInit PROVE StrInv
  OBVIOUS
<1>1. PICK t, u \in Texts : str = <<FromCstr(t), FromCstr(u)>> /\ want = <<t, u>>
  BY DEF StrInit
<1>2. t \in Seq(Int) /\ u \in Seq(Int)
  BY StringAssumption
<1>3. /\ FromCstr(t) \in StrType /\ HoldsText(FromCstr(t), t)
      /\ FromCstr(u) \in StrType /\ HoldsText(FromCstr(u), u)
  BY <1>2, FromCstrHolds
<1> QED BY <1>1, <1>2, <1>3 DEF StrInv, Strings

(* A step that gives one string a text keeps the other.                    *)
LEMMA OneString ==
  ASSUME StrInv, NEW i \in Strings, NEW s \in StrType, NEW t \in Seq(Int),
         str' = [str EXCEPT ![i] = s], want' = [want EXCEPT ![i] = t],
         i \notin misused' => HoldsText(s, t),
         \A j \in Strings \ {i} : j \in misused => j \in misused'
  PROVE  StrInv'
BY DEF StrInv

(* strcat of any text, that of the other string included, keeps both       *)
(* strings (ax_string.cc:169-189).                                         *)
LEMMA CatStrInv ==
  ASSUME StrInv, NEW i \in Strings, NEW t \in Seq(Int), StrCat(i, t)
  PROVE  StrInv'
<1>1. str[i] \in StrType /\ want[i] \in Seq(Int)
  BY DEF StrInv
<1>2. Appended(str[i], t) \in StrType /\ want[i] \o t \in Seq(Int)
  BY <1>1, AppendHolds
<1>3. i \notin misused' => HoldsText(Appended(str[i], t), want[i] \o t)
  <2> SUFFICES ASSUME i \notin misused' PROVE HoldsText(Appended(str[i], t), want[i] \o t)
    OBVIOUS
  <2>1. /\ i \notin misused
        /\ ~(str[i].type = "LARGER_STR" /\ Len(want[i] \o t) <= MAX_SMALL_LEN)
        /\ ~(want[i] = <<>> /\ Len(t) > MAX_SMALL_LEN)
    BY DEF StrCat
  <2>2. HoldsText(str[i], want[i])
    BY <2>1 DEF StrInv
  <2> QED BY <1>1, <2>1, <2>2, AppendHolds
<1>4. /\ str' = [str EXCEPT ![i] = Appended(str[i], t)] /\ want' = [want EXCEPT ![i] = want[i] \o t]
      /\ \A j \in Strings \ {i} : j \in misused => j \in misused'
  BY DEF StrCat
<1> QED BY <1>2, <1>3, <1>4, OneString

(* Every operation of string_t preserves the invariant.                    *)
LEMMA NextStrInv == StrInv /\ [StrNext]_strVars => StrInv'
<1> SUFFICES ASSUME StrInv, StrNext PROVE StrInv'
  BY DEF strVars, StrInv
<1>1. PICK i \in Strings :
        \/ \E t \in Texts : StrAssign(i, t) \/ StrCat(i, t)
        \/ \E j \in Strings : StrCopy(i, j)
        \/ 3 - i \notin misused /\ StrCat(i, str[3 - i].text)
        \/ \E n \in 0 .. MaxLen : StrExpand(i, n)
        \/ StrClear(i)
  BY DEF StrNext
<1>2. str[i] \in StrType /\ want[i] \in Seq(Int)
  BY DEF StrInv
<1>3. ASSUME NEW t \in Texts, StrAssign(i, t)  PROVE StrInv'
  <2>1. t \in Seq(Int)
    BY StringAssumption
  <2>2. FromCstr(t) \in StrType /\ HoldsText(FromCstr(t), t)
    BY <2>1, FromCstrHolds
  <2>3. /\ str' = [str EXCEPT ![i] = FromCstr(t)] /\ want' = [want EXCEPT ![i] = t]
        /\ \A j \in Strings \ {i} : j \in misused => j \in misused'
    BY <1>3 DEF StrAssign
  <2> QED BY <2>1, <2>2, <2>3, OneString
<1>4. ASSUME NEW t \in Texts, StrCat(i, t)  PROVE StrInv'
  BY <1>4, CatStrInv, StringAssumption
<1>5. ASSUME NEW j \in Strings, StrCopy(i, j)  PROVE StrInv'
  <2> DEFINE s == IF i = j THEN Small(<<>>) ELSE CopyOf(str[j])
  <2>1. str[j] \in StrType /\ want[j] \in Seq(Int)
    BY DEF StrInv
  <2>2. <<>> \in Seq(Int) /\ Len(<<>>) <= MAX_SMALL_LEN
    BY StringAssumption
  <2>3. s \in StrType
    BY <2>1, <2>2, CopyHolds, SmallHolds
  <2>4. i \notin misused' => HoldsText(s, want[j])
    <3> SUFFICES ASSUME i \notin misused' PROVE HoldsText(s, want[j])
      OBVIOUS
    <3>1. i # j /\ j \notin misused
      BY <1>5 DEF StrCopy
    <3>2. HoldsText(str[j], want[j])
      BY <3>1 DEF StrInv
    <3> QED BY <2>1, <3>1, <3>2, CopyHolds
  <2>5. /\ str' = [str EXCEPT ![i] = s] /\ want' = [want EXCEPT ![i] = want[j]]
        /\ \A k \in Strings \ {i} : k \in misused => k \in misused'
    BY <1>5 DEF StrCopy
  <2> QED BY <2>1, <2>3, <2>4, <2>5, OneString
<1>6. ASSUME 3 - i \notin misused, StrCat(i, str[3 - i].text)  PROVE StrInv'
  <2>1. 3 - i \in Strings
    BY DEF Strings
  <2>2. str[3 - i].text \in Seq(Int)
    BY <2>1 DEF StrInv, StrType
  <2> QED BY <1>6, <2>2, CatStrInv
<1>7. ASSUME NEW n \in 0 .. MaxLen, StrExpand(i, n)  PROVE StrInv'
  <2>1. n \in Nat
    BY StringAssumption
  <2>2. Expanded(str[i], n) \in StrType
    BY <1>2, <2>1, ExpandHolds
  <2>3. i \notin misused' => HoldsText(Expanded(str[i], n), want[i])
    <3> SUFFICES ASSUME i \notin misused' PROVE HoldsText(Expanded(str[i], n), want[i])
      OBVIOUS
    <3>1. i \notin misused /\ ~(want[i] = <<>> /\ n >= MAX_SMALL_LEN)
      BY <1>7 DEF StrExpand
    <3>2. HoldsText(str[i], want[i])
      BY <3>1 DEF StrInv
    <3> QED BY <1>2, <2>1, <3>1, <3>2, ExpandHolds
  <2>4. /\ str' = [str EXCEPT ![i] = Expanded(str[i], n)] /\ want' = [want EXCEPT ![i] = want[i]]
        /\ \A j \in Strings \ {i} : j \in misused => j \in misused'
    BY <1>7 DEF StrExpand, StrInv
  <2> QED BY <1>2, <2>2, <2>3, <2>4, OneString
<1>8. ASSUME StrClear(i)  PROVE StrInv'
  <2>1. <<>> \in Seq(Int) /\ Len(<<>>) <= MAX_SMALL_LEN
    BY StringAssumption
  <2>2. Small(<<>>) \in StrType /\ HoldsText(Small(<<>>), <<>>)
    BY <2>1, SmallHolds
  <2>3. /\ str' = [str EXCEPT ![i] = Small(<<>>)] /\ want' = [want EXCEPT ![i] = <<>>]
        /\ \A j \in Strings \ {i} : j \in misused => j \in misused'
    BY <1>8 DEF StrClear
  <2> QED BY <2>1, <2>2, <2>3, OneString
<1> QED BY <1>1, <1>3, <1>4, <1>5, <1>6, <1>7, <1>8

(* string_t holds the text it was given, for any size of the inner buffer  *)
(* and any text, outside of the three uses that break it (ax_string.cc).   *)
THEOREM StringHoldsText == StrSpec => []TextKept
<1>1. StrInv => TextKept
  BY StringAssumption DEF StrInv, TextKept, HoldsText
<1> QED BY <1>1, InitStrInv, NextStrInv, PTL DEF StrSpec
=============================================================================
