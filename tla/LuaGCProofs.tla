---------------------------- MODULE LuaGCProofs -----------------------------
(***************************************************************************)
(* The finalizers of the Lua collector (lgc.c), for every scene of objects *)
(* and every interleaving of the program with the collector.               *)
(*                                                                         *)
(* FinalizedOnce counts calls; the proof follows the FINALIZED bit of each *)
(* userdata.  Most of it says that marking, barriers, upvalues, weak tables *)
(* and the sweep of other objects leave the userdata alone (Quiet).        *)
(***************************************************************************)
EXTENDS LuaGC, FiniteSetTheorems, WellFoundedInduction, TLAPS

(* A set of naturals has a least element.                                  *)
LEMMA NatMin ==
  ASSUME NEW T \in SUBSET Nat, T # {}
  PROVE  \E x \in T : \A y \in T : x <= y
<1> DEFINE R == OpToRel(<, Nat)
<1>1. IsWellFoundedOn(R, Nat)
  BY NatLessThanWellFounded
<1>2. \A x, y \in Nat : x < y => <<x, y>> \in R
  BY DEF OpToRel
<1> HIDE DEF R
<1>3. PICK x \in T : \A y \in T : ~(<<y, x>> \in R)
  BY <1>1, WFMin
<1>4. \A y \in T : ~(y < x)
  BY <1>2, <1>3
<1> QED BY <1>3, <1>4

(* Induction over the naturals, for a set: the folds of the model          *)
(* (propagateall, luaF_close) take one object at a time.                   *)
LEMMA NatInd ==
  ASSUME NEW I, 0 \in I, \A n \in Nat : n \in I => n + 1 \in I
  PROVE  Nat \subseteq I
<1> SUFFICES ASSUME Nat \ I # {} PROVE FALSE
  OBVIOUS
<1>1. Nat \ I \in SUBSET Nat
  OBVIOUS
<1>2. PICK x \in Nat \ I : \A y \in Nat \ I : x <= y
  BY <1>1, NatMin
<1>3. x # 0 /\ x - 1 \in Nat /\ (x - 1) + 1 = x
  BY <1>2
<1>4. x - 1 \in I
  BY <1>2, <1>3
<1> QED BY <1>2, <1>3, <1>4

(* The userdata of the scene.                                              *)
Udata == {o \in Objects : tt(o) = "udata"}

(* A heap: no userdata in the lists of what is still to be traversed.      *)
IsHeap(h) ==
  /\ h = [marked |-> h.marked, ref |-> h.ref, open |-> h.open, gcstate |-> h.gcstate,
          currentwhite |-> h.currentwhite, gray |-> h.gray, grayagain |-> h.grayagain,
          weak |-> h.weak, unswept |-> h.unswept, tmudata |-> h.tmudata,
          finalized |-> h.finalized]
  /\ h.marked = [o \in Objects |-> h.marked[o]]
  /\ \A o \in h.gray \cup h.grayagain \cup h.weak : tt(o) # "udata"

(* k has the userdata of h, with the same finalizers still to be called.   *)
Same(h, k) ==
  /\ k.tmudata = h.tmudata /\ k.gcstate = h.gcstate
  /\ \A o \in Udata : /\ o \in k.finalized <=> o \in h.finalized
                      /\ o \in k.unswept <=> o \in h.unswept
                      /\ k.marked[o] = "free" <=> h.marked[o] = "free"

(* A change that leaves the finalizers alone.                              *)
Quiet(h, k) == IsHeap(k) /\ Same(h, k)

(* tmudata holds userdata, each once; they have their FINALIZED bit, no    *)
(* call behind them, and are not among what is still to be swept; what has *)
(* the bit or is still to be swept is not free; and a userdata without the *)
(* bit has no call behind it.                                              *)
TmRight(h, c) ==
  /\ h.tmudata \in Seq(Udata)
  /\ \A i, j \in 1 .. Len(h.tmudata) : h.tmudata[i] = h.tmudata[j] => i = j
  /\ \A i \in 1 .. Len(h.tmudata) :
       h.tmudata[i] \in h.finalized /\ h.tmudata[i] \notin h.unswept /\ c[h.tmudata[i]] = 0
  /\ \A o \in Udata :
       /\ o \in h.finalized \cup h.unswept => h.marked[o] # "free"
       /\ h.marked[o] # "free" /\ o \notin h.finalized => c[o] = 0

(* The inductive invariant.  FinalizedOnce bounds the number of calls;     *)
(* that the bit is set before a userdata waits and until its memory is     *)
(* freed, and that nothing waits to be swept when the next userdata are    *)
(* separated, makes it inductive.                                          *)
GCInv ==
  /\ scene \in Scenes
  /\ IsHeap(g)
  /\ called \in [Objects -> {0, 1}]
  /\ TmRight(g, called)
  /\ g.gcstate \notin {"sweepstring", "sweep"} => \A o \in Udata : o \notin g.unswept

(* A quiet change keeps what is known of tmudata.                          *)
LEMMA SameKeeps ==
  ASSUME NEW h, NEW k, NEW c, TmRight(h, c), Same(h, k)
  PROVE  TmRight(k, c)
<1>1. \A i \in 1 .. Len(h.tmudata) : h.tmudata[i] \in Udata
  BY DEF TmRight
<1> QED BY <1>1 DEF TmRight, Same

(* Two changes that keep the finalizers keep them together.                *)
LEMMA SameTrans ==
  ASSUME NEW h, NEW k, NEW m, Same(h, k), Same(k, m)
  PROVE  Same(h, m)
BY DEF Same

(* The objects reallymark reaches (lgc.c:69-112) keep their FINALIZED bit  *)
(* and their place, and none of them becomes free.                         *)
LEMMA MarkedWhite ==
  ASSUME IsFiniteSet(Objects), NEW h, NEW S
  PROVE  \A o \in MarkedThrough(h, S) : iswhite(h, o)
<1> DEFINE W(T) == {o \in T : iswhite(h, o)}
           F(T) == T \union W(UNION {Through(h, o) : o \in T})
           N == Cardinality(Objects)
           Sat(m, r) == r = [n \in 0 .. m |-> IF n = 0 THEN W(S) ELSE F(r[n - 1])]
           I == {m \in Nat : \E r : Sat(m, r)}
           reach == CHOOSE r : Sat(N, r)
<1>1. MarkedThrough(h, S) = reach[N]
  BY DEF MarkedThrough
<1>2. N \in Nat
  BY FS_CardinalityType
<1> HIDE DEF N
<1>3. \A T : (\A o \in T : iswhite(h, o)) => \A o \in F(T) : iswhite(h, o)
  OBVIOUS
<1>4. \A o \in W(S) : iswhite(h, o)
  OBVIOUS
<1> HIDE DEF W, F
<1>5. 0 \in I
  <2> DEFINE r == [n \in 0 .. 0 |-> W(S)]
  <2>1. Sat(0, r)
    OBVIOUS
  <2> QED BY <2>1
<1>6. ASSUME NEW m \in Nat, m \in I  PROVE m + 1 \in I
  <2>1. PICK r : Sat(m, r)
    BY <1>6
  <2> DEFINE s == [k \in 0 .. m + 1 |-> IF k = m + 1 THEN F(r[m]) ELSE r[k]]
  <2>2. ASSUME NEW k \in 0 .. m + 1
        PROVE  s[k] = IF k = 0 THEN W(S) ELSE F(s[k - 1])
    <3>1. CASE k = m + 1
      <4>1. s[k] = F(r[m]) /\ k - 1 = m /\ m \in 0 .. m + 1 /\ m # m + 1 /\ k # 0
        BY <3>1
      <4>2. s[k - 1] = r[m]
        BY <4>1
      <4> QED BY <4>1, <4>2
    <3>2. CASE k # m + 1
      <4>1. k \in 0 .. m /\ s[k] = r[k]
        BY <3>2
      <4>2. k # 0 => k - 1 \in 0 .. m + 1 /\ k - 1 # m + 1
        BY <4>1
      <4>3. r[k] = IF k = 0 THEN W(S) ELSE F(r[k - 1])
        BY <2>1, <4>1
      <4>4. k # 0 => s[k - 1] = r[k - 1]
        BY <4>2
      <4> QED BY <4>1, <4>3, <4>4
    <3> QED BY <3>1, <3>2
  <2>3. Sat(m + 1, s)
    <3>1. s = [k \in 0 .. m + 1 |-> s[k]]
      OBVIOUS
    <3> HIDE DEF s
    <3> QED BY <2>2, <3>1
  <2> HIDE DEF Sat
  <2>4. m + 1 \in Nat /\ \E x : Sat(m + 1, x)
    BY <2>3
  <2> QED BY <2>4
<1>7. N \in I
  <2> HIDE DEF I
  <2> QED BY <1>2, <1>5, <1>6, NatInd
<1>8. Sat(N, reach)
  <2> HIDE DEF Sat
  <2> QED BY <1>7
<1> HIDE DEF reach
<1> DEFINE J == {n \in Nat : n \in 0 .. N => \A o \in reach[n] : iswhite(h, o)}
<1>9. 0 \in J
  BY <1>2, <1>4, <1>8
<1>10. ASSUME NEW n \in Nat, n \in J  PROVE n + 1 \in J
  <2>1. CASE n + 1 \in 0 .. N
    <3>1. reach[n + 1] = F(reach[n])
      <4>1. (n + 1) # 0 /\ (n + 1) - 1 = n
        OBVIOUS
      <4> QED BY <1>8, <2>1, <4>1
    <3>2. \A o \in reach[n] : iswhite(h, o)
      BY <1>10, <1>2, <2>1
    <3> QED BY <1>3, <3>1, <3>2
  <2> QED BY <2>1
<1>11. N \in J
  <2> HIDE DEF J
  <2> QED BY <1>2, <1>9, <1>10, NatInd
<1> QED BY <1>1, <1>2, <1>11

(* reallymark (lgc.c:69-112) turns white objects gray, userdata at once    *)
(* black.                                                                  *)
LEMMA ReallymarkQuiet ==
  ASSUME IsFiniteSet(Objects), NEW h, IsHeap(h), NEW S
  PROVE  Quiet(h, reallymark(h, S))
<1> DEFINE new == MarkedThrough(h, S)
           k == reallymark(h, S)
           black == {o \in new : tt(o) = "udata" \/ (tt(o) = "upval" /\ ~IsOpen(h, o))}
<1>1. \A o \in new : iswhite(h, o)
  BY MarkedWhite
<1> HIDE DEF new
<1>2. k = [h EXCEPT !.marked = [o \in Objects |-> IF o \in black THEN "black"
                                                  ELSE IF o \in new THEN "gray"
                                                  ELSE h.marked[o]],
                    !.gray = h.gray \union
                         {o \in new : tt(o) \in {"table", "closure", "thread"}}]
  BY DEF reallymark, new
<1> HIDE DEF k
<1>3. /\ k.marked = [o \in Objects |-> IF o \in black THEN "black"
                                        ELSE IF o \in new THEN "gray" ELSE h.marked[o]]
      /\ k.gray = h.gray \union {o \in new : tt(o) \in {"table", "closure", "thread"}}
      /\ k.ref = h.ref /\ k.open = h.open /\ k.gcstate = h.gcstate
      /\ k.currentwhite = h.currentwhite /\ k.grayagain = h.grayagain /\ k.weak = h.weak
      /\ k.unswept = h.unswept /\ k.tmudata = h.tmudata /\ k.finalized = h.finalized
      /\ k = [marked |-> k.marked, ref |-> k.ref, open |-> k.open, gcstate |-> k.gcstate,
          currentwhite |-> k.currentwhite, gray |-> k.gray, grayagain |-> k.grayagain,
          weak |-> k.weak, unswept |-> k.unswept, tmudata |-> k.tmudata,
          finalized |-> k.finalized]
  BY <1>2 DEF IsHeap
<1>4. \A o \in k.gray \cup k.grayagain \cup k.weak : tt(o) # "udata"
  BY <1>3 DEF IsHeap
<1>5. k.marked = [o \in Objects |-> k.marked[o]]
  BY <1>3
<1>6. \A o \in Objects : k.marked[o] = "free" <=> h.marked[o] = "free"
  BY <1>1, <1>3 DEF iswhite, Whites
<1> QED BY <1>3, <1>4, <1>5, <1>6 DEF IsHeap, Quiet, Same, Udata, k

(* Changes to ref alone are quiet.                                         *)
LEMMA RefQuiet ==
  ASSUME NEW h, IsHeap(h), NEW r
  PROVE  Quiet(h, [h EXCEPT !.ref = r])
BY DEF IsHeap, Quiet, Same

(* propagatemark (lgc.c:277-320) marks what one gray object refers to.     *)
LEMMA PropagatemarkQuiet ==
  ASSUME IsFiniteSet(Objects), NEW h, IsHeap(h), NEW o \in h.gray
  PROVE  Quiet(h, propagatemark(h, o))
<1> DEFINE again == tt(o) = "thread"
           weak == tt(o) = "table" /\ scene.mode[o] # {}
           h1 == [h EXCEPT !.gray = @ \ {o},
                        !.marked[o] = IF again \/ weak THEN "gray" ELSE "black",
                        !.grayagain = IF again THEN @ \union {o} ELSE @,
                        !.weak = IF weak THEN @ \union {o} ELSE @]
           S == Values(h, o, StrongFields(h, o))
<1>1. propagatemark(h, o) = reallymark(removeentries(h1, o), S)
  BY DEF propagatemark
<1>2. tt(o) # "udata"
  BY DEF IsHeap
<1>3. PICK col : col = IF again \/ weak THEN "gray" ELSE "black"
  OBVIOUS
<1>4. PICK ga, w : /\ ga = IF again THEN h.grayagain \union {o} ELSE h.grayagain
                   /\ w = IF weak THEN h.weak \union {o} ELSE h.weak
  OBVIOUS
<1>5. h1 = [h EXCEPT !.gray = h.gray \ {o}, !.marked = [h.marked EXCEPT ![o] = col],
                     !.grayagain = ga, !.weak = w]
  BY <1>3, <1>4
<1> HIDE DEF h1, S
<1>6. Quiet(h, h1)
  <2>1. \A x \in (h.gray \ {o}) \cup ga \cup w : tt(x) # "udata"
    BY <1>2, <1>4 DEF IsHeap
  <2>2. PICK mk : mk = [h.marked EXCEPT ![o] = col]
    OBVIOUS
  <2>3. mk = [x \in Objects |-> mk[x]] /\ \A x \in Udata : mk[x] = h.marked[x]
    <3>1. \A x \in Udata : x # o
      BY <1>2 DEF Udata
    <3> QED BY <2>2, <3>1 DEF IsHeap, Udata
  <2>4. h1 = [h EXCEPT !.gray = h.gray \ {o}, !.marked = mk, !.grayagain = ga, !.weak = w]
    BY <1>5, <2>2
  <2> QED BY <2>1, <2>3, <2>4 DEF IsHeap, Quiet, Same
<1>7. Quiet(h1, removeentries(h1, o))
  <2>1. CASE removeentries(h1, o) = h1
    BY <1>6, <2>1 DEF Quiet, Same
  <2>2. CASE removeentries(h1, o) # h1
    <3>1. removeentries(h1, o) = [h1 EXCEPT !.ref = [h1.ref EXCEPT ![o].key = Nil]]
      BY <2>2 DEF removeentries
    <3> QED BY <1>6, <3>1, RefQuiet DEF Quiet
  <2> QED BY <2>1, <2>2
<1>8. Quiet(removeentries(h1, o), reallymark(removeentries(h1, o), S))
  BY <1>7, ReallymarkQuiet DEF Quiet
<1> QED BY <1>1, <1>6, <1>7, <1>8, SameTrans DEF Quiet

(* propagateall (lgc.c:323-327) does so until none is gray.                *)
LEMMA PropagateallQuiet ==
  ASSUME IsFiniteSet(Objects), NEW h, IsHeap(h)
  PROVE  Quiet(h, propagateall(h))
<1> DEFINE F(k) == IF k.gray = {} THEN k ELSE propagatemark(k, CHOOSE o \in k.gray : TRUE)
           N == 2 * Cardinality(Objects)
           Sat(m, r) == r = [n \in 0 .. m |-> IF n = 0 THEN h ELSE F(r[n - 1])]
           I == {m \in Nat : \E r : Sat(m, r)}
           after == CHOOSE r : Sat(N, r)
<1>1. propagateall(h) = after[N]
  BY DEF propagateall
<1>2. N \in Nat
  BY FS_CardinalityType
<1> HIDE DEF N
<1>3. ASSUME NEW k, Quiet(h, k)  PROVE Quiet(h, F(k))
  <2>1. CASE k.gray = {}
    BY <1>3, <2>1
  <2>2. CASE k.gray # {}
    <3>1. PICK o \in k.gray : o = CHOOSE x \in k.gray : TRUE
      BY <2>2
    <3>2. Quiet(k, propagatemark(k, o))
      BY <1>3, PropagatemarkQuiet DEF Quiet
    <3> QED BY <1>3, <2>2, <3>1, <3>2, SameTrans DEF Quiet
  <2> QED BY <2>1, <2>2
<1> HIDE DEF F
<1>5. 0 \in I
  <2> DEFINE r == [n \in 0 .. 0 |-> h]
  <2>1. Sat(0, r)
    OBVIOUS
  <2> QED BY <2>1
<1>6. ASSUME NEW m \in Nat, m \in I  PROVE m + 1 \in I
  <2>1. PICK r : Sat(m, r)
    BY <1>6
  <2> DEFINE s == [k \in 0 .. m + 1 |-> IF k = m + 1 THEN F(r[m]) ELSE r[k]]
  <2>2. ASSUME NEW k \in 0 .. m + 1
        PROVE  s[k] = IF k = 0 THEN h ELSE F(s[k - 1])
    <3>1. CASE k = m + 1
      <4>1. s[k] = F(r[m]) /\ k - 1 = m /\ m \in 0 .. m + 1 /\ m # m + 1 /\ k # 0
        BY <3>1
      <4>2. s[k - 1] = r[m]
        BY <4>1
      <4> QED BY <4>1, <4>2
    <3>2. CASE k # m + 1
      <4>1. k \in 0 .. m /\ s[k] = r[k]
        BY <3>2
      <4>2. k # 0 => k - 1 \in 0 .. m + 1 /\ k - 1 # m + 1
        BY <4>1
      <4>3. r[k] = IF k = 0 THEN h ELSE F(r[k - 1])
        BY <2>1, <4>1
      <4>4. k # 0 => s[k - 1] = r[k - 1]
        BY <4>2
      <4> QED BY <4>1, <4>3, <4>4
    <3> QED BY <3>1, <3>2
  <2>3. Sat(m + 1, s)
    <3>1. s = [k \in 0 .. m + 1 |-> s[k]]
      OBVIOUS
    <3> HIDE DEF s
    <3> QED BY <2>2, <3>1
  <2> HIDE DEF Sat
  <2>4. m + 1 \in Nat /\ \E x : Sat(m + 1, x)
    BY <2>3
  <2> QED BY <2>4
<1>7. N \in I
  <2> HIDE DEF I
  <2> QED BY <1>2, <1>5, <1>6, NatInd
<1>8. Sat(N, after)
  <2> HIDE DEF Sat
  <2> QED BY <1>7
<1> HIDE DEF after
<1> DEFINE J == {n \in Nat : n \in 0 .. N => Quiet(h, after[n])}
<1>9. 0 \in J
  <2>1. after[0] = h
    BY <1>2, <1>8
  <2> QED BY <2>1 DEF Quiet, Same
<1>10. ASSUME NEW n \in Nat, n \in J  PROVE n + 1 \in J
  <2>1. CASE n + 1 \in 0 .. N
    <3>1. after[n + 1] = F(after[n])
      <4>1. (n + 1) # 0 /\ (n + 1) - 1 = n
        OBVIOUS
      <4> QED BY <1>8, <2>1, <4>1
    <3>2. Quiet(h, after[n])
      BY <1>10, <1>2, <2>1
    <3> QED BY <1>3, <3>1, <3>2
  <2> QED BY <2>1
<1>11. N \in J
  <2> HIDE DEF J
  <2> QED BY <1>2, <1>9, <1>10, NatInd
<1> QED BY <1>1, <1>2, <1>11

(* An object that is not free, or no userdata, may change its colour.      *)
LEMMA RecolourQuiet ==
  ASSUME NEW h, IsHeap(h), NEW o, o \in Udata => h.marked[o] # "free", NEW col, col # "free"
  PROVE  Quiet(h, [h EXCEPT !.marked[o] = col])
<1>1. PICK mk : mk = [h.marked EXCEPT ![o] = col]
  OBVIOUS
<1>2. [h EXCEPT !.marked[o] = col] = [h EXCEPT !.marked = mk]
  BY <1>1
<1>3. mk = [x \in Objects |-> mk[x]]
  BY <1>1 DEF IsHeap
<1>4. \A x \in Udata : mk[x] = "free" <=> h.marked[x] = "free"
  BY <1>1 DEF IsHeap, Udata
<1> QED BY <1>2, <1>3, <1>4 DEF IsHeap, Quiet, Same

(* luaC_white is a colour of an object that exists.                        *)
LEMMA WhiteNotFree == ASSUME NEW h PROVE luaC_white(h) # "free"
BY DEF luaC_white

(* makewhite (lgc.h:86), of an object that exists or of no userdata.       *)
LEMMA MakewhiteQuiet ==
  ASSUME NEW h, IsHeap(h), NEW o, o \in Udata => h.marked[o] # "free"
  PROVE  Quiet(h, makewhite(h, o))
BY RecolourQuiet, WhiteNotFree DEF makewhite

(* Two quiet changes are quiet together.                                   *)
LEMMA QuietTrans ==
  ASSUME NEW h, NEW k, NEW m, Quiet(h, k), Quiet(k, m)
  PROVE  Quiet(h, m)
BY SameTrans DEF Quiet

(* No change is quiet.                                                     *)
LEMMA QuietSelf ==
  ASSUME NEW h, IsHeap(h)
  PROVE  Quiet(h, h)
BY DEF Quiet, Same

(* luaC_barrierf and luaC_barrierback (lgc.c:661-682) mark an object or    *)
(* make one white.                                                         *)
LEMMA BarrierQuiet ==
  ASSUME IsFiniteSet(Objects), NEW h, IsHeap(h), NEW o, NEW v
  PROVE  Quiet(h, Barrier(h, o, v))
<1>1. CASE v = Nil \/ h.marked[o] # "black" \/ ~iswhite(h, v)
  BY <1>1, QuietSelf DEF Barrier
<1>2. CASE v # Nil /\ h.marked[o] = "black" /\ iswhite(h, v) /\ tt(o) = "table"
  <2>1. PICK k : k = [h EXCEPT !.marked[o] = "gray"]
    OBVIOUS
  <2>2. Quiet(h, k)
    BY <1>2, <2>1, RecolourQuiet
  <2>3. Barrier(h, o, v) = [k EXCEPT !.grayagain = k.grayagain \cup {o}]
    BY <1>2, <2>1 DEF Barrier, luaC_barrierback, IsHeap
  <2>4. Quiet(k, [k EXCEPT !.grayagain = k.grayagain \cup {o}])
    BY <1>2, <2>2 DEF Quiet, Same, IsHeap
  <2> QED BY <2>2, <2>3, <2>4, QuietTrans
<1>3. CASE v # Nil /\ h.marked[o] = "black" /\ iswhite(h, v) /\ tt(o) # "table"
  <2>1. CASE h.gcstate = "propagate"
    BY <1>3, <2>1, ReallymarkQuiet DEF Barrier, luaC_barrierf
  <2>2. CASE h.gcstate # "propagate"
    BY <1>3, <2>2, MakewhiteQuiet DEF Barrier, luaC_barrierf
  <2> QED BY <2>1, <2>2
<1> QED BY <1>1, <1>2, <1>3

(* What freeing an object does to the fields the proof looks at.           *)
LEMMA FreedIs ==
  ASSUME NEW h, IsHeap(h), NEW o
  PROVE  /\ IsHeap(Freed(h, o)) /\ Freed(h, o).tmudata = h.tmudata
         /\ Freed(h, o).finalized = h.finalized \ {o} /\ Freed(h, o).unswept = h.unswept \ {o}
         /\ Freed(h, o).gcstate = h.gcstate
         /\ \A x \in Objects : Freed(h, o).marked[x] = IF x = o THEN "free" ELSE h.marked[x]
<1>1. PICK mk : mk = [h.marked EXCEPT ![o] = "free"]
  OBVIOUS
<1>2. PICK rf, op : rf = [h.ref EXCEPT ![o] = NoRef(o)] /\ op = [h.open EXCEPT ![o] = Nil]
  OBVIOUS
<1>3. Freed(h, o) = [h EXCEPT !.marked = mk, !.ref = rf, !.open = op,
                              !.grayagain = h.grayagain \ {o}, !.weak = h.weak \ {o},
                              !.finalized = h.finalized \ {o}, !.unswept = h.unswept \ {o}]
  BY <1>1, <1>2 DEF Freed
<1>4. mk = [x \in Objects |-> mk[x]] /\ \A x \in Objects : mk[x] = IF x = o THEN "free" ELSE h.marked[x]
  BY <1>1 DEF IsHeap
<1>5. \A x \in h.gray \cup (h.grayagain \ {o}) \cup (h.weak \ {o}) : tt(x) # "udata"
  BY DEF IsHeap
<1> QED BY <1>3, <1>4, <1>5 DEF IsHeap

(* freeobj (lgc.c:378-400) of what is no userdata.                         *)
LEMMA FreedQuiet ==
  ASSUME NEW h, IsHeap(h), NEW o, tt(o) # "udata"
  PROVE  Quiet(h, Freed(h, o))
<1>1. \A x \in Udata : x # o /\ x \in Objects
  BY DEF Udata
<1> QED BY <1>1, FreedIs DEF Quiet, Same

(* luaF_close links an upvalue it closes, or frees it when it is dead      *)
(* (lfunc.c:96-112; lgc.c:694-709).                                        *)
LEMMA CloseUpvalQuiet ==
  ASSUME IsFiniteSet(Objects), NEW h, IsHeap(h), NEW o, tt(o) = "upval"
  PROVE  Quiet(h, CloseUpval(h, o))
<1>0. o \notin Udata
  BY DEF Udata
<1>1. CASE isdead(h, o)
  BY <1>1, FreedQuiet DEF CloseUpval
<1>2. CASE ~isdead(h, o)
  <2>1. PICK k : k = [h EXCEPT !.ref[o].v = UpvalValue(h, o), !.open[o] = Nil]
    OBVIOUS
  <2>2. Quiet(h, k)
    <3>1. PICK rf, op : rf = [h.ref EXCEPT ![o].v = UpvalValue(h, o)] /\ op = [h.open EXCEPT ![o] = Nil]
      OBVIOUS
    <3>2. k = [h EXCEPT !.ref = rf, !.open = op]
      BY <2>1, <3>1
    <3> QED BY <3>2 DEF IsHeap, Quiet, Same
  <2>3. CloseUpval(h, o) = luaC_linkupval(k, o)
    BY <1>2, <2>1 DEF CloseUpval
  <2>4. Quiet(k, luaC_linkupval(k, o))
    <3>1. CASE k.marked[o] # "gray"
      BY <2>2, <3>1, QuietSelf DEF luaC_linkupval, Quiet
    <3>2. CASE k.marked[o] = "gray" /\ k.gcstate # "propagate"
      BY <1>0, <2>2, <3>2, MakewhiteQuiet DEF luaC_linkupval, Quiet
    <3>3. CASE k.marked[o] = "gray" /\ k.gcstate = "propagate"
      <4>1. PICK b : b = [k EXCEPT !.marked[o] = "black"]
        OBVIOUS
      <4>2. Quiet(k, b)
        BY <1>0, <2>2, <4>1, RecolourQuiet DEF Quiet
      <4>3. luaC_linkupval(k, o) = IF k.ref[o].v = Nil THEN b ELSE reallymark(b, {k.ref[o].v})
        BY <3>3, <4>1 DEF luaC_linkupval
      <4>4. Quiet(b, reallymark(b, {k.ref[o].v}))
        BY <4>2, ReallymarkQuiet DEF Quiet
      <4> QED BY <4>2, <4>3, <4>4, QuietTrans
    <3> QED BY <3>1, <3>2, <3>3
  <2> QED BY <2>2, <2>3, <2>4, QuietTrans
<1> QED BY <1>1, <1>2

(* The open upvalues of a slot are upvalues.                               *)
LEMMA UpvalAtIs == ASSUME NEW h, NEW t, NEW s, NEW o \in UpvalAt(h, t, s) PROVE tt(o) = "upval"
BY DEF UpvalAt, OpenUpvals, IsOpen

(* luaF_close (lfunc.c:96-112) closes upvalues one by one.                 *)
LEMMA LuaFCloseQuiet ==
  ASSUME IsFiniteSet(Objects), NEW h, IsHeap(h), NEW t, NEW level
  PROVE  Quiet(h, luaF_close(h, t, level))
<1> DEFINE at(s, k) == IF s \notin From(level) \/ UpvalAt(k, t, s) = {} THEN k
                       ELSE CloseUpval(k, CHOOSE o \in UpvalAt(k, t, s) : TRUE)
<1>1. ASSUME NEW s, NEW k, IsHeap(k)  PROVE Quiet(k, at(s, k))
  <2>1. CASE s \notin From(level) \/ UpvalAt(k, t, s) = {}
    BY <1>1, <2>1, QuietSelf
  <2>2. CASE ~(s \notin From(level) \/ UpvalAt(k, t, s) = {})
    <3>1. PICK o \in UpvalAt(k, t, s) : o = CHOOSE x \in UpvalAt(k, t, s) : TRUE
      BY <2>2
    <3>2. Quiet(k, CloseUpval(k, o))
      BY <1>1, UpvalAtIs, CloseUpvalQuiet
    <3> QED BY <2>2, <3>1, <3>2
  <2> QED BY <2>1, <2>2
<1>2. luaF_close(h, t, level) = at("s1", at("s2", h))
  BY DEF luaF_close
<1> HIDE DEF at
<1>3. Quiet(h, at("s2", h))
  BY <1>1
<1>4. Quiet(at("s2", h), at("s1", at("s2", h)))
  BY <1>1, <1>3 DEF Quiet
<1> QED BY <1>2, <1>3, <1>4, QuietTrans

(* The sweep of a thread's open upvalues (lgc.c:407-428, sweepwholelist).  *)
LEMMA SweepOpenQuiet ==
  ASSUME NEW h, IsHeap(h), NEW t
  PROVE  Quiet(h, SweepOpen(h, t))
<1> DEFINE at(s, k) == IF UpvalAt(k, t, s) = {} THEN k
                       ELSE SweepOne(k, CHOOSE o \in UpvalAt(k, t, s) : TRUE)
<1>1. ASSUME NEW s, NEW k, IsHeap(k)  PROVE Quiet(k, at(s, k))
  <2>1. CASE UpvalAt(k, t, s) = {}
    BY <1>1, <2>1, QuietSelf
  <2>2. CASE UpvalAt(k, t, s) # {}
    <3>1. PICK o \in UpvalAt(k, t, s) : o = CHOOSE x \in UpvalAt(k, t, s) : TRUE
      BY <2>2
    <3>2. tt(o) = "upval" /\ o \notin Udata
      BY UpvalAtIs DEF Udata
    <3>3. Quiet(k, Freed(k, o)) /\ Quiet(k, makewhite(k, o))
      BY <1>1, <3>2, FreedQuiet, MakewhiteQuiet
    <3>4. Quiet(k, SweepOne(k, o))
      BY <3>3 DEF SweepOne
    <3> QED BY <2>2, <3>1, <3>4
  <2> QED BY <2>1, <2>2
<1>2. SweepOpen(h, t) = at("s1", at("s2", h))
  BY DEF SweepOpen
<1> HIDE DEF at
<1>3. Quiet(h, at("s2", h))
  BY <1>1
<1>4. Quiet(at("s2", h), at("s1", at("s2", h)))
  BY <1>1, <1>3 DEF Quiet
<1> QED BY <1>2, <1>3, <1>4, QuietTrans

(* A userdata that is freed takes its FINALIZED bit along; one that waits  *)
(* is not freed.                                                           *)
LEMMA FreedKeeps ==
  ASSUME NEW h, IsHeap(h), NEW c, TmRight(h, c), NEW o,
         \A i \in 1 .. Len(h.tmudata) : h.tmudata[i] # o
  PROVE  IsHeap(Freed(h, o)) /\ TmRight(Freed(h, o), c) /\ Freed(h, o).gcstate = h.gcstate
<1>1. PICK k : k = Freed(h, o)
  OBVIOUS
<1>2. /\ k.gcstate = h.gcstate /\ IsHeap(k) /\ k.tmudata = h.tmudata
      /\ k.finalized = h.finalized \ {o} /\ k.unswept = h.unswept \ {o}
      /\ \A x \in Objects : k.marked[x] = IF x = o THEN "free" ELSE h.marked[x]
  BY <1>1, FreedIs
<1>3. \A x \in Udata : x \in Objects
  BY DEF Udata
<1>4. TmRight(k, c)
  BY <1>2, <1>3 DEF TmRight
<1> QED BY <1>1, <1>2, <1>4

(* sweeplist (lgc.c:407-428) makes an object white for the next cycle or   *)
(* frees it.                                                               *)
LEMMA SweepKeeps ==
  ASSUME IsFiniteSet(Objects), NEW h, IsHeap(h), NEW c, TmRight(h, c), NEW o \in h.unswept
  PROVE  /\ IsHeap(sweepobject(h, o)) /\ TmRight(sweepobject(h, o), c)
         /\ sweepobject(h, o).gcstate = h.gcstate
<1>1. PICK h1 : h1 = [h EXCEPT !.unswept = h.unswept \ {o}]
  OBVIOUS
<1>2. /\ IsHeap(h1) /\ h1.tmudata = h.tmudata /\ h1.gcstate = h.gcstate /\ h1.finalized = h.finalized
      /\ h1.unswept = h.unswept \ {o} /\ h1.marked = h.marked
  BY <1>1 DEF IsHeap
<1>3. TmRight(h1, c)
  BY <1>2 DEF TmRight
<1>4. PICK h2 : h2 = IF tt(o) = "thread" THEN SweepOpen(h1, o) ELSE h1
  OBVIOUS
<1>5. Quiet(h1, h2)
  BY <1>2, <1>4, SweepOpenQuiet, QuietSelf
<1>6. PICK h3 : h3 = IF tt(o) = "thread" THEN luaF_close(h2, o, "s1") ELSE h2
  OBVIOUS
<1>7. Quiet(h2, h3)
  BY <1>5, <1>6, LuaFCloseQuiet, QuietSelf DEF Quiet
<1>8. IsHeap(h2) /\ TmRight(h2, c) /\ IsHeap(h3) /\ TmRight(h3, c)
  BY <1>3, <1>5, <1>7, SameKeeps DEF Quiet
<1>9. h2.tmudata = h.tmudata /\ h3.tmudata = h.tmudata /\ h2.gcstate = h.gcstate /\ h3.gcstate = h.gcstate
  BY <1>2, <1>5, <1>7 DEF Quiet, Same
<1>10. \A i \in 1 .. Len(h.tmudata) : h.tmudata[i] # o
  BY DEF TmRight
<1>11. sweepobject(h, o) = IF isdead(h, o) /\ o # Main THEN Freed(h3, o) ELSE makewhite(h2, o)
  BY <1>1, <1>4, <1>6 DEF sweepobject
<1>12. IsHeap(Freed(h3, o)) /\ TmRight(Freed(h3, o), c) /\ Freed(h3, o).gcstate = h.gcstate
  BY <1>8, <1>9, <1>10, FreedKeeps
<1>13. o \in Udata => h2.marked[o] # "free"
  <2>1. o \in Udata => h.marked[o] # "free"
    BY DEF TmRight
  <2> QED BY <1>2, <1>5, <2>1 DEF Quiet, Same
<1>14. Quiet(h2, makewhite(h2, o))
  BY <1>8, <1>13, MakewhiteQuiet
<1>15. IsHeap(makewhite(h2, o)) /\ TmRight(makewhite(h2, o), c) /\ makewhite(h2, o).gcstate = h.gcstate
  BY <1>8, <1>9, <1>14, SameKeeps DEF Quiet, Same
<1> QED BY <1>11, <1>12, <1>15

(* The elements of a finite set in some order, each once.                  *)
LEMMA ListOfIs ==
  ASSUME NEW S, IsFiniteSet(S)
  PROVE  /\ ListOf(S) \in Seq(S)
         /\ \A i, j \in 1 .. Len(ListOf(S)) : ListOf(S)[i] = ListOf(S)[j] => i = j
<1> DEFINE n == Cardinality(S)
           Spells(s) == {s[i] : i \in DOMAIN s} = S
<1>1. n \in Nat /\ ExistsBijection(1 .. n, S)
  BY FS_CardinalityType
<1>2. IsFiniteSet(1 .. n) /\ Cardinality(1 .. n) = n
  <2>1. Cardinality(1 .. n) = IF 1 > n THEN 0 ELSE n - 1 + 1
    BY <1>1, FS_Interval
  <2>2. IsFiniteSet(1 .. n)
    BY <1>1, FS_Interval
  <2> QED BY <1>1, <2>1, <2>2
<1> HIDE DEF n
<1>3. PICK f \in Bijection(1 .. n, S) : TRUE
  BY <1>1 DEF ExistsBijection
<1>4. f \in [1 .. n -> S] /\ Spells(f)
  BY <1>3 DEF Bijection, Surjection, Injection
<1>5. ListOf(S) = CHOOSE s \in [1 .. n -> S] : Spells(s)
  BY DEF ListOf, n
<1> HIDE DEF Spells
<1>6. PICK s \in [1 .. n -> S] : s = ListOf(S) /\ Spells(s)
  BY <1>4, <1>5
<1>7. s \in Surjection(1 .. n, S)
  BY <1>6 DEF Surjection, Spells
<1>8. s \in Injection(1 .. n, S)
  BY <1>2, <1>7, FS_SurjSameCardinalityImpliesInj DEF n
<1>9. s \in Seq(S) /\ Len(s) = n
  BY <1>1, <1>6
<1> QED BY <1>6, <1>8, <1>9 DEF Injection, IsInjective

(* Userdata that get their FINALIZED bit and wait for a finalizer had no   *)
(* call yet.                                                               *)
LEMMA SeparateKeeps ==
  ASSUME IsFiniteSet(Objects), NEW h, IsHeap(h), NEW c, TmRight(h, c),
         \A o \in Udata : o \notin h.unswept
  PROVE  /\ IsHeap(luaC_separateudata(h, FALSE)) /\ TmRight(luaC_separateudata(h, FALSE), c)
         /\ luaC_separateudata(h, FALSE).unswept = h.unswept
<1> DEFINE U == {u \in Allocated(h) : /\ tt(u) = "udata" /\ iswhite(h, u) /\ u \notin h.finalized}
           P == {u \in U : HasGC(h, u)}
           s == ListOf(P)
           k == luaC_separateudata(h, FALSE)
<1>1. k = [h EXCEPT !.finalized = h.finalized \cup U, !.tmudata = h.tmudata \o s]
  BY DEF luaC_separateudata
<1>2. \A u \in U : u \in Udata /\ h.marked[u] # "free" /\ u \notin h.finalized /\ c[u] = 0
  BY DEF Udata, Allocated, TmRight
<1>3. P \subseteq U /\ P \subseteq Objects /\ IsFiniteSet(P)
  <2>1. P \subseteq U /\ P \in SUBSET Objects
    BY DEF Allocated
  <2> HIDE DEF P
  <2> QED BY <2>1, FS_Subset
<1> HIDE DEF U, P
<1>4. s \in Seq(P) /\ \A i, j \in 1 .. Len(s) : s[i] = s[j] => i = j
  BY <1>3, ListOfIs
<1> HIDE DEF s, k
<1>5. \A i \in 1 .. Len(s) : s[i] \in P
  BY <1>4
<1>6. PICK t : t = h.tmudata
  OBVIOUS
<1>7. /\ t \in Seq(Udata) /\ \A i, j \in 1 .. Len(t) : t[i] = t[j] => i = j
      /\ \A i \in 1 .. Len(t) : t[i] \in h.finalized /\ c[t[i]] = 0 /\ t[i] \in Udata
  BY <1>6 DEF TmRight
<1>8. PICK z : z = t \o s
  OBVIOUS
<1>9. s \in Seq(Udata) /\ z \in Seq(Udata) /\ Len(z) = Len(t) + Len(s)
  <2>1. P \subseteq Udata
    BY <1>2, <1>3
  <2>2. s \in Seq(Udata)
    BY <1>4, <2>1
  <2> QED BY <1>7, <1>8, <2>2
<1>10. /\ Len(t) \in Nat /\ Len(s) \in Nat
       /\ \A i \in 1 .. Len(t) : z[i] = t[i]
       /\ \A i \in Len(t) + 1 .. Len(z) : i - Len(t) \in 1 .. Len(s) /\ z[i] = s[i - Len(t)]
  BY <1>7, <1>8, <1>9
<1>11. \A i \in 1 .. Len(z) : i \in 1 .. Len(t) \/ i \in Len(t) + 1 .. Len(z)
  BY <1>9, <1>10
<1>12. ASSUME NEW i \in 1 .. Len(z), NEW j \in 1 .. Len(z), z[i] = z[j]  PROVE i = j
  <2>1. CASE i \in 1 .. Len(t) /\ j \in 1 .. Len(t)
    BY <1>7, <1>10, <1>12, <2>1
  <2>2. CASE i \in Len(t) + 1 .. Len(z) /\ j \in Len(t) + 1 .. Len(z)
    <3>1. i - Len(t) = j - Len(t)
      BY <1>4, <1>10, <1>12, <2>2
    <3> QED BY <1>10, <3>1
  <2>3. CASE i \in 1 .. Len(t) /\ j \in Len(t) + 1 .. Len(z)
    BY <1>2, <1>3, <1>5, <1>7, <1>10, <1>12, <2>3
  <2>4. CASE j \in 1 .. Len(t) /\ i \in Len(t) + 1 .. Len(z)
    BY <1>2, <1>3, <1>5, <1>7, <1>10, <1>12, <2>4
  <2> QED BY <1>11, <2>1, <2>2, <2>3, <2>4
<1>13. \A i \in 1 .. Len(z) : z[i] \in h.finalized \cup U /\ c[z[i]] = 0 /\ z[i] \in Udata
  BY <1>2, <1>3, <1>5, <1>7, <1>10, <1>11
<1>14. k.finalized = h.finalized \cup U /\ k.tmudata = z /\ k.unswept = h.unswept
       /\ k.marked = h.marked /\ IsHeap(k)
  BY <1>1, <1>6, <1>8 DEF IsHeap
<1>15. \A o \in Udata :
         /\ o \in k.finalized \cup k.unswept => k.marked[o] # "free"
         /\ k.marked[o] # "free" /\ o \notin k.finalized => c[o] = 0
  BY <1>2, <1>14 DEF TmRight
<1>16. TmRight(k, c)
  BY <1>9, <1>12, <1>13, <1>14, <1>15 DEF TmRight
<1> QED BY <1>14, <1>16 DEF k

(* What waits for its finalizer is marked.                                 *)
LEMMA MarktmuQuiet ==
  ASSUME IsFiniteSet(Objects), NEW h, IsHeap(h), NEW c, TmRight(h, c)
  PROVE  Quiet(h, marktmu(h))
<1>1. PICK mk : mk = [o \in Objects |-> IF o \in Pending(h) THEN luaC_white(h) ELSE h.marked[o]]
  OBVIOUS
<1>2. PICK k : k = [h EXCEPT !.marked = mk]
  OBVIOUS
<1>3. \A o \in Pending(h) : o \in Udata /\ h.marked[o] # "free"
  <2>1. DOMAIN h.tmudata = 1 .. Len(h.tmudata)
    BY DEF TmRight
  <2> QED BY <2>1 DEF TmRight, Pending
<1>4. mk = [o \in Objects |-> mk[o]] /\ \A o \in Udata : mk[o] = "free" <=> h.marked[o] = "free"
  BY <1>1, <1>3, WhiteNotFree DEF Udata
<1>5. Quiet(h, k)
  BY <1>2, <1>4 DEF IsHeap, Quiet, Same
<1>6. marktmu(h) = reallymark(k, Pending(h))
  BY <1>1, <1>2 DEF marktmu
<1>7. Quiet(k, reallymark(k, Pending(h)))
  BY <1>5, ReallymarkQuiet DEF Quiet
<1> QED BY <1>5, <1>6, <1>7, QuietTrans

(* cleartable (lgc.c:352-375) takes entries out of weak tables.            *)
LEMMA CleartableQuiet ==
  ASSUME IsFiniteSet(Objects), NEW h, IsHeap(h)
  PROVE  Quiet(h, cleartable(h))
<1>1. PICK k : k = reallymark(h, WeakStrings(h))
  OBVIOUS
<1>2. Quiet(h, k)
  BY <1>1, ReallymarkQuiet
<1> DEFINE gone == {t \in h.weak : \/ iscleared(h, h.ref[t].val, FALSE)
                                   \/ iscleared(h, h.ref[t].key, TRUE)}
<1>3. PICK r : r = [o \in Objects |->
            IF o \in gone THEN [k.ref[o] EXCEPT !.key = Nil, !.val = Nil] ELSE k.ref[o]]
  OBVIOUS
<1>4. cleartable(h) = [k EXCEPT !.ref = r]
  BY <1>1, <1>3 DEF cleartable
<1>5. Quiet(k, [k EXCEPT !.ref = r])
  BY <1>2, RefQuiet DEF Quiet
<1> QED BY <1>2, <1>4, <1>5, QuietTrans

(* The collector's atomic step: userdata are separated with nothing left   *)
(* to sweep, and what is swept next leaves out what waits.                 *)
LEMMA AtomicKeeps ==
  ASSUME IsFiniteSet(Objects), NEW h, IsHeap(h), NEW c, TmRight(h, c),
         \A o \in Udata : o \notin h.unswept, NEW n \in atomic(h)
  PROVE  IsHeap(n) /\ TmRight(n, c) /\ n.gcstate = "sweepstring"
<1>1. PICK k1 : k1 = propagateall(remarkupvals(h))
  OBVIOUS
<1>2. PICK k2 : k2 = propagateall(reallymark([k1 EXCEPT !.gray = k1.weak, !.weak = {}], {L}))
  OBVIOUS
<1>3. PICK k3 : k3 = propagateall([k2 EXCEPT !.gray = k2.grayagain, !.grayagain = {}])
  OBVIOUS
<1>4. PICK k4 : k4 = luaC_separateudata(k3, FALSE)
  OBVIOUS
<1>5. PICK k5 : k5 = propagateall(marktmu(k4))
  OBVIOUS
<1>6. PICK k6 : k6 = cleartable(k5)
  OBVIOUS
<1>7. n = [k6 EXCEPT !.currentwhite = 1 - @, !.gcstate = "sweepstring", !.unswept = Listed(k6)]
  <2> DEFINE propagated == {propagateall(remarkupvals(h))}
             weakly == {propagateall(reallymark([k EXCEPT !.gray = k.weak, !.weak = {}], {L})) : k \in propagated}
             again == {propagateall([k EXCEPT !.gray = k.grayagain, !.grayagain = {}]) : k \in weakly}
             finalizing == {luaC_separateudata(k, FALSE) : k \in again}
             marked == {propagateall(marktmu(m)) : m \in finalizing}
             cleared == {cleartable(k) : k \in marked}
             swept == {[k EXCEPT !.currentwhite = 1 - @, !.gcstate = "sweepstring", !.unswept = Listed(k)] : k \in cleared}
  <2>1. atomic(h) = swept
    BY DEF atomic
  <2>2. propagated = {k1}
    BY <1>1
  <2> HIDE DEF propagated
  <2>3. weakly = {k2}
    BY <1>2, <2>2
  <2> HIDE DEF weakly
  <2>4. again = {k3}
    BY <1>3, <2>3
  <2> HIDE DEF again
  <2>5. finalizing = {k4}
    BY <1>4, <2>4
  <2> HIDE DEF finalizing
  <2>6. marked = {k5}
    BY <1>5, <2>5
  <2> HIDE DEF marked
  <2>7. cleared = {k6}
    BY <1>6, <2>6
  <2> HIDE DEF cleared
  <2> QED BY <2>1, <2>7
<1>8. Quiet(h, k1)
  <2>1. Quiet(h, remarkupvals(h))
    BY ReallymarkQuiet DEF remarkupvals
  <2>2. Quiet(remarkupvals(h), k1)
    BY <1>1, <2>1, PropagateallQuiet DEF Quiet
  <2> QED BY <2>1, <2>2, QuietTrans
<1>9. Quiet(k1, k2)
  <2>1. PICK w : w = [k1 EXCEPT !.gray = k1.weak, !.weak = {}]
    OBVIOUS
  <2>2. Quiet(k1, w)
    BY <1>8, <2>1 DEF IsHeap, Quiet, Same
  <2>3. PICK x : x = reallymark(w, {L})
    OBVIOUS
  <2>4. Quiet(w, x)
    BY <2>2, <2>3, ReallymarkQuiet DEF Quiet
  <2>5. Quiet(x, k2)
    BY <1>2, <2>1, <2>3, <2>4, PropagateallQuiet DEF Quiet
  <2> QED BY <2>2, <2>4, <2>5, QuietTrans
<1>10. Quiet(k2, k3)
  <2>1. PICK w : w = [k2 EXCEPT !.gray = k2.grayagain, !.grayagain = {}]
    OBVIOUS
  <2>2. Quiet(k2, w)
    BY <1>9, <2>1 DEF IsHeap, Quiet, Same
  <2>3. Quiet(w, k3)
    BY <1>3, <2>1, <2>2, PropagateallQuiet DEF Quiet
  <2> QED BY <2>2, <2>3, QuietTrans
<1>11. Quiet(h, k3)
  BY <1>8, <1>9, <1>10, QuietTrans
<1>12. IsHeap(k3) /\ TmRight(k3, c) /\ \A o \in Udata : o \notin k3.unswept
  BY <1>11, SameKeeps DEF Quiet, Same
<1>13. IsHeap(k4) /\ TmRight(k4, c) /\ k4.unswept = k3.unswept
  BY <1>4, <1>12, SeparateKeeps
<1>14. Quiet(k4, k5)
  <2>1. Quiet(k4, marktmu(k4))
    BY <1>13, MarktmuQuiet
  <2>2. Quiet(marktmu(k4), k5)
    BY <1>5, <2>1, PropagateallQuiet DEF Quiet
  <2> QED BY <2>1, <2>2, QuietTrans
<1>15. Quiet(k5, k6)
  BY <1>6, <1>14, CleartableQuiet DEF Quiet
<1>16. IsHeap(k6) /\ TmRight(k6, c)
  BY <1>13, <1>14, <1>15, QuietTrans, SameKeeps DEF Quiet
<1>17. /\ IsHeap(n) /\ n.unswept = Listed(k6) /\ n.tmudata = k6.tmudata /\ n.marked = k6.marked
       /\ n.finalized = k6.finalized /\ n.gcstate = "sweepstring"
  BY <1>7, <1>16 DEF IsHeap
<1>18. /\ \A o \in Listed(k6) : k6.marked[o] # "free"
       /\ \A i \in 1 .. Len(k6.tmudata) : k6.tmudata[i] \notin Listed(k6)
  <2>1. DOMAIN k6.tmudata = 1 .. Len(k6.tmudata)
    BY <1>16 DEF TmRight
  <2> QED BY <2>1 DEF Listed, Allocated, Pending
<1>19. TmRight(n, c)
  BY <1>16, <1>17, <1>18 DEF TmRight
<1> QED BY <1>17, <1>19

(* A scene has finitely many objects.                                      *)
LEMMA FiniteObjects == GCInv => IsFiniteSet(Objects)
BY SceneAssumption DEF GCInv, Objects

(* A state that has just been created has nothing to finalize              *)
(* (lstate.c:134-180).                                                     *)
LEMMA InitGCInv == Init => GCInv
<1> SUFFICES ASSUME Init PROVE GCInv
  OBVIOUS
<1>1. PICK mk : mk = [o \in Objects |-> IF o \in RootSet THEN "white0" ELSE "free"]
  OBVIOUS
<1>2. /\ g.marked = mk /\ g.tmudata = <<>> /\ g.finalized = {} /\ g.unswept = {} /\ g.gray = {}
      /\ g.grayagain = {} /\ g.weak = {} /\ scene \in Scenes /\ called = [o \in Objects |-> 0]
  BY <1>1 DEF Init
<1>3. IsHeap(g)
  <2>1. mk = [o \in Objects |-> mk[o]]
    BY <1>1
  <2> QED BY <1>1, <1>2, <2>1 DEF Init, IsHeap
<1>4. TmRight(g, called)
  BY <1>2 DEF TmRight, Udata
<1>5. called \in [Objects -> {0, 1}]
  BY <1>2
<1> QED BY <1>2, <1>3, <1>4, <1>5 DEF GCInv

(* A step that is quiet for userdata and calls no finalizer.               *)
LEMMA QuietStep ==
  ASSUME GCInv, Quiet(g, g'), UNCHANGED <<scene, called>>
  PROVE  GCInv'
<1>1. Udata' = Udata /\ Objects' = Objects
  BY DEF Udata, Objects, tt
<1>2. TmRight(g', called)
  BY SameKeeps DEF GCInv, Quiet
<1>3. TmRight(g, called)'
  BY <1>1, <1>2 DEF TmRight
<1>4. IsHeap(g)'
  BY <1>1 DEF Quiet, IsHeap, tt
<1>5. (g.gcstate \notin {"sweepstring", "sweep"} => \A o \in Udata : o \notin g.unswept)'
  BY <1>1 DEF GCInv, Quiet, Same
<1> QED BY <1>1, <1>3, <1>4, <1>5 DEF GCInv

(* Any other step that calls no finalizer.                                 *)
LEMMA HeapStep ==
  ASSUME GCInv, NEW h, g' = h, IsHeap(h), TmRight(h, called), UNCHANGED <<scene, called>>,
         h.gcstate \notin {"sweepstring", "sweep"} => \A o \in Udata : o \notin h.unswept
  PROVE  GCInv'
<1>1. Udata' = Udata /\ Objects' = Objects
  BY DEF Udata, Objects, tt
<1>2. TmRight(g, called)'
  BY <1>1 DEF TmRight
<1>3. IsHeap(g)'
  BY <1>1 DEF IsHeap, tt
<1>4. (g.gcstate \notin {"sweepstring", "sweep"} => \A o \in Udata : o \notin g.unswept)'
  BY <1>1
<1> QED BY <1>1, <1>2, <1>3, <1>4 DEF GCInv

(* The same, for the actions that change the heap only.                    *)
LEMMA DoQuiet ==
  ASSUME GCInv, NEW h, Do(h), Quiet(g, h)
  PROVE  GCInv'
BY QuietStep DEF Do

(* An assignment to a stack slot is quiet.                                 *)
LEMMA AssignedQuiet ==
  ASSUME NEW h, IsHeap(h), NEW i, NEW v
  PROVE  Quiet(h, Assigned(h, i, v))
<1>1. Assigned(h, i, v) = [h EXCEPT !.ref = [h.ref EXCEPT ![L][i] = v]]
  BY DEF Assigned
<1> QED BY <1>1, RefQuiet

(* A new object; a new userdata has no call behind it, whatever its address*)
(* was before.                                                             *)
LEMMA NewInv ==
  ASSUME GCInv, NEW i, NEW o \in Objects, New(i, o)
  PROVE  GCInv'
<1>1. PICK k : k = makewhite(g, o)
  OBVIOUS
<1>2. PICK mk : mk = [g.marked EXCEPT ![o] = luaC_white(g)]
  OBVIOUS
<1>3. IsHeap(k) /\ k = [g EXCEPT !.marked = mk] /\ mk = [x \in Objects |-> mk[x]]
      /\ (\A x \in Objects : mk[x] = IF x = o THEN luaC_white(g) ELSE g.marked[x])
  <2>1. k = [g EXCEPT !.marked = mk]
    BY <1>1, <1>2 DEF makewhite
  <2>2. mk = [x \in Objects |-> mk[x]]
        /\ (\A x \in Objects : mk[x] = IF x = o THEN luaC_white(g) ELSE g.marked[x])
    BY <1>2 DEF GCInv, IsHeap
  <2> QED BY <2>1, <2>2 DEF GCInv, IsHeap
<1>4. /\ k.tmudata = g.tmudata /\ k.finalized = g.finalized /\ k.unswept = g.unswept
      /\ k.gcstate = g.gcstate /\ k.marked = mk
  BY <1>3 DEF GCInv, IsHeap
<1>5. g.marked[o] = "free" /\ g' = Assigned(k, i, o) /\ called' = [called EXCEPT ![o] = 0]
      /\ UNCHANGED <<scene, L>>
  BY <1>1 DEF New, luaC_link
<1>6. Quiet(k, g')
  BY <1>3, <1>5, AssignedQuiet
<1>7. called' \in [Objects -> {0, 1}] /\ \A x \in Objects : called'[x] = IF x = o THEN 0 ELSE called[x]
  BY <1>5 DEF GCInv
<1>8. \A x \in Udata : x \in Objects
  BY DEF Udata
<1>9. TmRight(k, called')
  <2>1. /\ k.tmudata \in Seq(Udata)
        /\ \A x, y \in 1 .. Len(k.tmudata) : k.tmudata[x] = k.tmudata[y] => x = y
    BY <1>4 DEF GCInv, TmRight
  <2>2. ASSUME NEW x \in 1 .. Len(k.tmudata)
        PROVE  /\ k.tmudata[x] \in k.finalized /\ k.tmudata[x] \notin k.unswept
               /\ called'[k.tmudata[x]] = 0
    <3>1. k.tmudata[x] \in Udata
      BY <2>1
    <3> QED BY <1>4, <1>7, <1>8, <3>1 DEF GCInv, TmRight
  <2>3. ASSUME NEW x \in Udata
        PROVE  /\ x \in k.finalized \cup k.unswept => k.marked[x] # "free"
               /\ k.marked[x] # "free" /\ x \notin k.finalized => called'[x] = 0
    BY <1>3, <1>4, <1>5, <1>7, <1>8, WhiteNotFree DEF GCInv, TmRight
  <2> QED BY <2>1, <2>2, <2>3 DEF TmRight
<1>10. TmRight(g', called')
  BY <1>6, <1>9, SameKeeps DEF Quiet
<1>11. Udata' = Udata /\ Objects' = Objects
  BY <1>5 DEF Udata, Objects, tt
<1>12. TmRight(g, called)'
  BY <1>10, <1>11 DEF TmRight
<1>13. IsHeap(g)'
  BY <1>5, <1>6, <1>11 DEF Quiet, IsHeap, tt
<1>14. (g.gcstate \notin {"sweepstring", "sweep"} => \A x \in Udata : x \notin g.unswept)'
  BY <1>4, <1>6, <1>11 DEF GCInv, Quiet, Same
<1>15. scene' \in Scenes
  BY <1>5 DEF GCInv
<1> QED BY <1>7, <1>11, <1>12, <1>13, <1>14, <1>15 DEF GCInv

(* A finalizer is called for a userdata that waits for it, which then      *)
(* waits no more.                                                          *)
LEMMA FinalizeInv ==
  ASSUME GCInv, NEW i, Finalize(i)
  PROVE  GCInv'
<1>0. IsHeap(g) /\ TmRight(g, called) /\ called \in [Objects -> {0, 1}] /\ scene \in Scenes
  BY DEF GCInv
<1>1. CASE g.tmudata = <<>>
  <2>1. PICK h : h = [g EXCEPT !.gcstate = "pause"]
    OBVIOUS
  <2>2. g' = h /\ UNCHANGED <<scene, called>> /\ g.gcstate = "finalize"
    BY <1>1, <2>1 DEF Finalize, Collect, Do
  <2>3. /\ IsHeap(h) /\ h.tmudata = g.tmudata /\ h.finalized = g.finalized /\ h.marked = g.marked
        /\ h.unswept = g.unswept
    BY <1>0, <2>1 DEF IsHeap
  <2>4. TmRight(h, called)
    BY <1>0, <2>3 DEF TmRight
  <2> QED BY <2>2, <2>3, <2>4, HeapStep DEF GCInv
<1>2. CASE g.tmudata # <<>>
  <2>1. PICK t : t = g.tmudata
    OBVIOUS
  <2>2. PICK u : u = Head(t)
    OBVIOUS
  <2>3. /\ t \in Seq(Udata) /\ t # <<>> /\ u = t[1] /\ Len(t) \in Nat /\ Len(t) >= 1
        /\ Tail(t) \in Seq(Udata) /\ Len(Tail(t)) = Len(t) - 1
        /\ \A j \in 1 .. Len(t) - 1 : Tail(t)[j] = t[j + 1] /\ j + 1 \in 1 .. Len(t)
    BY <1>0, <1>2, <2>1, <2>2 DEF TmRight
  <2>4. u \in Udata /\ u \in g.finalized /\ called[u] = 0 /\ g.marked[u] # "free" /\ u \in Objects
    <3>1. 1 \in 1 .. Len(t)
      BY <2>3
    <3>2. u \in Udata /\ u \in g.finalized /\ called[u] = 0
      BY <1>0, <2>1, <2>3, <3>1 DEF TmRight
    <3> QED BY <1>0, <3>2 DEF TmRight, Udata
  <2>5. PICK h : h = [g EXCEPT !.tmudata = Tail(t)]
    OBVIOUS
  <2>6. /\ IsHeap(h) /\ h.tmudata = Tail(t) /\ h.finalized = g.finalized /\ h.marked = g.marked
        /\ h.unswept = g.unswept /\ h.gcstate = g.gcstate
    BY <1>0, <2>5 DEF IsHeap
  <2>7. PICK b : b = makewhite(h, u)
    OBVIOUS
  <2>8. Quiet(h, b)
    BY <2>4, <2>6, <2>7, MakewhiteQuiet
  <2>9. Quiet(b, [b EXCEPT !.ref[L][i] = u])
    <3>1. [b EXCEPT !.ref[L][i] = u] = [b EXCEPT !.ref = [b.ref EXCEPT ![L][i] = u]]
      OBVIOUS
    <3> QED BY <2>8, <3>1, RefQuiet DEF Quiet
  <2>10. /\ g' = GCTM(g, i) /\ g.gcstate = "finalize" /\ UNCHANGED <<scene, L>>
         /\ called' = [called EXCEPT ![u] = IF HasGC(g, u) THEN @ + 1 ELSE @]
    BY <1>2, <2>1, <2>2 DEF Finalize
  <2>11. g' = b \/ g' = [b EXCEPT !.ref[L][i] = u]
    BY <2>1, <2>2, <2>5, <2>7, <2>10 DEF GCTM
  <2>12. Quiet(h, g')
    BY <2>8, <2>9, <2>11, QuietTrans
  <2>13. called' \in [Objects -> {0, 1}] /\ \A x \in Objects : x # u => called'[x] = called[x]
    BY <1>0, <2>4, <2>10
  <2>14. TmRight(h, called')
    <3>1. /\ h.tmudata \in Seq(Udata)
          /\ \A x, y \in 1 .. Len(h.tmudata) : h.tmudata[x] = h.tmudata[y] => x = y
      <4>1. \A x, y \in 1 .. Len(t) : t[x] = t[y] => x = y
        BY <1>0, <2>1 DEF TmRight
      <4>2. ASSUME NEW x \in 1 .. Len(t) - 1, NEW y \in 1 .. Len(t) - 1, Tail(t)[x] = Tail(t)[y]
            PROVE  x = y
        <5>1. x + 1 = y + 1
          BY <2>3, <4>1, <4>2
        <5> QED BY <5>1
      <4> QED BY <2>3, <2>6, <4>2
    <3>2. ASSUME NEW x \in 1 .. Len(h.tmudata)
          PROVE  /\ h.tmudata[x] \in h.finalized /\ h.tmudata[x] \notin h.unswept
                 /\ called'[h.tmudata[x]] = 0
      <4>1. PICK y \in 1 .. Len(t) : y # 1 /\ h.tmudata[x] = t[y]
        <5>1. x \in 1 .. Len(t) - 1 /\ x + 1 # 1
          BY <2>3, <2>6
        <5> QED BY <2>3, <2>6, <5>1
      <4>2. t[y] # u
        BY <1>0, <2>1, <2>3, <4>1 DEF TmRight
      <4>3. t[y] \in Objects /\ t[y] \in g.finalized /\ t[y] \notin g.unswept /\ called[t[y]] = 0
        BY <1>0, <2>1, <4>1 DEF TmRight, Udata
      <4> QED BY <2>6, <2>13, <4>1, <4>2, <4>3
    <3>3. ASSUME NEW x \in Udata
          PROVE  /\ x \in h.finalized \cup h.unswept => h.marked[x] # "free"
                 /\ h.marked[x] # "free" /\ x \notin h.finalized => called'[x] = 0
      <4>1. x \in Objects
        BY DEF Udata
      <4> QED BY <1>0, <2>4, <2>6, <2>13, <4>1 DEF TmRight
    <3> QED BY <3>1, <3>2, <3>3 DEF TmRight
  <2>15. TmRight(g', called')
    BY <2>12, <2>14, SameKeeps DEF Quiet
  <2>16. Udata' = Udata /\ Objects' = Objects
    BY <2>10 DEF Udata, Objects, tt
  <2>17. TmRight(g, called)'
    BY <2>15, <2>16 DEF TmRight
  <2>18. IsHeap(g)'
    BY <2>10, <2>12, <2>16 DEF Quiet, IsHeap, tt
  <2>19. (g.gcstate \notin {"sweepstring", "sweep"} => \A x \in Udata : x \notin g.unswept)'
    BY <2>6, <2>12, <2>16 DEF GCInv, Quiet, Same
  <2> QED BY <1>0, <2>10, <2>13, <2>16, <2>17, <2>18, <2>19 DEF GCInv
<1> QED BY <1>1, <1>2

(* The program's other steps leave the finalizers alone.                   *)
LEMMA ProgramInv == GCInv /\ Program => GCInv'
<1> SUFFICES ASSUME GCInv, Program PROVE GCInv'
  OBVIOUS
<1>0. IsFiniteSet(Objects) /\ IsHeap(g)
  BY FiniteObjects DEF GCInv
<1>1. ASSUME NEW i, NEW o \in Objects, New(i, o)  PROVE GCInv'
  BY <1>1, NewInv
<1>2. ASSUME NEW i, NEW o \in Objects, Intern(i, o)  PROVE GCInv'
  <2>1. Do(Assigned(luaS_newlstr(g, o), i, o)) /\ o \notin Udata
    BY <1>2 DEF Intern, Udata
  <2>2. Quiet(g, luaS_newlstr(g, o))
    BY <1>0, <2>1, MakewhiteQuiet, QuietSelf DEF luaS_newlstr, luaC_link
  <2>3. Quiet(luaS_newlstr(g, o), Assigned(luaS_newlstr(g, o), i, o))
    BY <2>2, AssignedQuiet DEF Quiet
  <2>4. Quiet(g, Assigned(luaS_newlstr(g, o), i, o))
    BY <2>2, <2>3, QuietTrans
  <2> QED BY <2>1, <2>4, DoQuiet
<1>3. ASSUME NEW i, NEW o, NEW s, NEW u, Closure(i, o, s, u)  PROVE GCInv'
  <2>1. PICK k : k = luaC_link(g, o)
    OBVIOUS
  <2>2. o \notin Udata /\ u \notin Udata
    BY <1>3 DEF Closure, Udata
  <2>3. Quiet(g, k)
    BY <1>0, <2>1, <2>2, MakewhiteQuiet DEF luaC_link
  <2>4. PICK h : h = luaF_findupval(k, s, u)
    OBVIOUS
  <2>5. Quiet(k, luaC_link(k, u))
    BY <2>2, <2>3, MakewhiteQuiet DEF luaC_link, Quiet
  <2>6. PICK m : m = luaC_link(k, u)
    OBVIOUS
  <2>7. Quiet(m, [m EXCEPT !.open[u] = [thread |-> L, slot |-> s]])
    <3>1. PICK op : op = [m.open EXCEPT ![u] = [thread |-> L, slot |-> s]]
      OBVIOUS
    <3>2. [m EXCEPT !.open[u] = [thread |-> L, slot |-> s]] = [m EXCEPT !.open = op]
      BY <3>1
    <3> QED BY <2>5, <2>6, <3>2 DEF IsHeap, Quiet, Same
  <2>8. Quiet(k, h)
    <3>1. h = k \/ h = m \/ h = [m EXCEPT !.open[u] = [thread |-> L, slot |-> s]]
      BY <2>4, <2>6 DEF luaF_findupval
    <3>2. Quiet(k, k)
      BY <2>3, QuietSelf DEF Quiet
    <3> QED BY <2>5, <2>6, <2>7, <3>1, <3>2, QuietTrans
  <2>9. PICK n : n = [h EXCEPT !.ref[o].up = u]
    OBVIOUS
  <2>10. Quiet(h, n)
    <3>1. n = [h EXCEPT !.ref = [h.ref EXCEPT ![o].up = u]]
      BY <2>9
    <3> QED BY <2>8, <3>1, RefQuiet DEF Quiet
  <2>11. Quiet(n, Assigned(n, i, o))
    BY <2>10, AssignedQuiet DEF Quiet
  <2>12. Do(Assigned(n, i, o))
    BY <1>3, <2>1, <2>4, <2>9 DEF Closure
  <2>13. Quiet(g, Assigned(n, i, o))
    BY <2>3, <2>8, <2>10, <2>11, QuietTrans
  <2> QED BY <2>12, <2>13, DoQuiet
<1>4. ASSUME NEW j, NEW m, SetMetatable(j, m)  PROVE GCInv'
  <2>1. PICK o, k : o = Stack(j) /\ k = [g EXCEPT !.ref = [g.ref EXCEPT ![o].meta = m]]
    OBVIOUS
  <2>2. Do(Barrier(k, o, m))
    BY <1>4, <2>1 DEF SetMetatable
  <2>3. Quiet(g, k)
    BY <1>0, <2>1, RefQuiet
  <2>4. Quiet(k, Barrier(k, o, m))
    BY <1>0, <2>3, BarrierQuiet DEF Quiet
  <2> QED BY <2>2, <2>3, <2>4, QuietTrans, DoQuiet
<1>5. ASSUME NEW i, NEW j, NEW f, GetField(i, j, f)  PROVE GCInv'
  BY <1>0, <1>5, AssignedQuiet, DoQuiet DEF GetField
<1>6. ASSUME NEW i, NEW j, NEW f, SetField(j, f, i)  PROVE GCInv'
  <2>1. PICK o, k : o = Stack(j) /\ k = [g EXCEPT !.ref = [g.ref EXCEPT ![o][f] = Stack(i)]]
    OBVIOUS
  <2>2. Do(Barrier(k, o, Stack(i)))
    BY <1>6, <2>1 DEF SetField
  <2>3. Quiet(g, k)
    BY <1>0, <2>1, RefQuiet
  <2>4. Quiet(k, Barrier(k, o, Stack(i)))
    BY <1>0, <2>3, BarrierQuiet DEF Quiet
  <2> QED BY <2>2, <2>3, <2>4, QuietTrans, DoQuiet
<1>7. ASSUME NEW i, NEW j, NEW k, SetNode(j, k, i)  PROVE GCInv'
  <2>1. PICK t, h : /\ t = Stack(j)
                    /\ h = [g EXCEPT !.ref[t].key = Stack(k), !.ref[t].val = Stack(i)]
    OBVIOUS
  <2>2. Do(Barrier(Barrier(h, t, Stack(k)), t, Stack(i)))
    BY <1>7, <2>1 DEF SetNode
  <2>3. Quiet(g, h)
    <3>1. PICK x : x = [g EXCEPT !.ref = [g.ref EXCEPT ![t].key = Stack(k)]]
      OBVIOUS
    <3>2. Quiet(g, x)
      BY <1>0, <3>1, RefQuiet
    <3>3. h = [x EXCEPT !.ref = [x.ref EXCEPT ![t].val = Stack(i)]]
      BY <1>0, <2>1, <3>1 DEF IsHeap
    <3>4. Quiet(x, h)
      BY <3>2, <3>3, RefQuiet DEF Quiet
    <3> QED BY <3>2, <3>4, QuietTrans
  <2>4. Quiet(h, Barrier(h, t, Stack(k)))
    BY <1>0, <2>3, BarrierQuiet DEF Quiet
  <2>5. Quiet(Barrier(h, t, Stack(k)), Barrier(Barrier(h, t, Stack(k)), t, Stack(i)))
    BY <1>0, <2>4, BarrierQuiet DEF Quiet
  <2> QED BY <2>2, <2>3, <2>4, <2>5, QuietTrans, DoQuiet
<1>8. ASSUME NEW i, NEW j, GetUpval(i, j)  PROVE GCInv'
  BY <1>0, <1>8, AssignedQuiet, DoQuiet DEF GetUpval
<1>9. ASSUME NEW i, NEW j, SetUpval(j, i)  PROVE GCInv'
  <2>1. PICK u : u = g.ref[Stack(j)].up
    OBVIOUS
  <2>2. PICK h : h = IF IsOpen(g, u)
                     THEN [g EXCEPT !.ref[g.open[u].thread][g.open[u].slot] = Stack(i)]
                     ELSE [g EXCEPT !.ref[u].v = Stack(i)]
    OBVIOUS
  <2>3. Do(Barrier(h, u, Stack(i)))
    BY <1>9, <2>1, <2>2 DEF SetUpval
  <2>4. Quiet(g, h)
    <3>1. PICK t, s : t = g.open[u].thread /\ s = g.open[u].slot
      OBVIOUS
    <3>2. \/ h = [g EXCEPT !.ref = [g.ref EXCEPT ![t][s] = Stack(i)]]
          \/ h = [g EXCEPT !.ref = [g.ref EXCEPT ![u].v = Stack(i)]]
      BY <2>2, <3>1
    <3> QED BY <1>0, <3>2, RefQuiet
  <2>5. Quiet(h, Barrier(h, u, Stack(i)))
    BY <1>0, <2>4, BarrierQuiet DEF Quiet
  <2> QED BY <2>3, <2>4, <2>5, QuietTrans, DoQuiet
<1>10. ASSUME NEW level, Return(level)  PROVE GCInv'
  <2>1. PICK h : h = luaF_close(g, L, level)
    OBVIOUS
  <2>2. PICK r : r = [h.ref EXCEPT ![L] = [s \in DOMAIN @ |->
                        IF s \in From(level) THEN Nil ELSE @[s]]]
    OBVIOUS
  <2>3. Do([h EXCEPT !.ref = r])
    BY <1>10, <2>1, <2>2 DEF Return
  <2>4. Quiet(g, h)
    BY <1>0, <2>1, LuaFCloseQuiet
  <2>5. Quiet(h, [h EXCEPT !.ref = r])
    BY <2>4, RefQuiet DEF Quiet
  <2> QED BY <2>3, <2>4, <2>5, QuietTrans, DoQuiet
<1>11. ASSUME NEW j, Resume(j)  PROVE GCInv'
  <2>1. PICK v : g' = [g EXCEPT !.ref = [g.ref EXCEPT ![Stack(j)].s1 = v]]
    BY <1>11 DEF Resume
  <2> QED BY <1>0, <1>11, <2>1, RefQuiet, QuietStep DEF Resume
<1>12. ASSUME Yield  PROVE GCInv'
  <2>1. g' = [g EXCEPT !.ref = [g.ref EXCEPT ![Main].s1 = Stack("s1")]]
    BY <1>12 DEF Yield
  <2> QED BY <1>0, <1>12, <2>1, RefQuiet, QuietStep DEF Yield
<1> QED BY <1>1, <1>2, <1>3, <1>4, <1>5, <1>6, <1>7, <1>8, <1>9, <1>10, <1>11, <1>12 DEF Program

(* Marking and sweeping leave them alone too, until atomic separates the   *)
(* userdata that died.                                                     *)
LEMMA CollectorInv == GCInv /\ Collector => GCInv'
<1> SUFFICES ASSUME GCInv, Collector PROVE GCInv'
  OBVIOUS
<1>0. IsFiniteSet(Objects) /\ IsHeap(g) /\ TmRight(g, called)
  BY FiniteObjects DEF GCInv
<1>1. ASSUME g.gcstate \in {"pause", "finalize"}, UNCHANGED <<scene, called>>,
             g' = [reallymark(markrootLists(g), RootSet) EXCEPT !.gcstate = "propagate"]
      PROVE  GCInv'
  <2>1. PICK k : k = markrootLists(g)
    OBVIOUS
  <2>2. Quiet(g, k)
    BY <1>0, <2>1 DEF markrootLists, IsHeap, Quiet, Same
  <2>3. PICK m : m = reallymark(k, RootSet)
    OBVIOUS
  <2>4. Quiet(k, m)
    BY <1>0, <2>2, <2>3, ReallymarkQuiet DEF Quiet
  <2>5. Quiet(g, m)
    BY <2>2, <2>4, QuietTrans
  <2>6. PICK h : h = [m EXCEPT !.gcstate = "propagate"]
    OBVIOUS
  <2>7. /\ IsHeap(h) /\ h.tmudata = m.tmudata /\ h.finalized = m.finalized
        /\ h.unswept = m.unswept /\ h.marked = m.marked /\ h.gcstate = "propagate"
    BY <2>5, <2>6 DEF Quiet, IsHeap
  <2>8. TmRight(m, called)
    BY <1>0, <2>5, SameKeeps DEF Quiet
  <2>9. TmRight(h, called)
    BY <2>7, <2>8 DEF TmRight
  <2>10. \A o \in Udata : o \notin h.unswept
    BY <1>1, <2>5, <2>7 DEF GCInv, Quiet, Same
  <2>11. g' = h
    BY <1>1, <2>1, <2>3, <2>6
  <2> QED BY <1>1, <2>7, <2>9, <2>10, <2>11, HeapStep
<1>2. CASE MarkRoot
  BY <1>1, <1>2 DEF MarkRoot
<1>3. CASE Propagate
  <2>1. PICK o \in g.gray : Do(propagatemark(g, o))
    BY <1>3 DEF Propagate, Collect
  <2> QED BY <1>0, <2>1, PropagatemarkQuiet, DoQuiet
<1>4. CASE Atomic
  <2>1. PICK h \in atomic(g) : Do(h) /\ g.gcstate = "propagate"
    BY <1>4 DEF Atomic, Collect
  <2>2. \A o \in Udata : o \notin g.unswept
    BY <2>1 DEF GCInv
  <2>3. IsHeap(h) /\ TmRight(h, called) /\ h.gcstate = "sweepstring"
    BY <1>0, <2>2, AtomicKeeps
  <2> QED BY <2>1, <2>3, HeapStep DEF Do
<1>5. ASSUME NEW o \in g.unswept, Do(sweepobject(g, o)), g.gcstate \in {"sweepstring", "sweep"}
      PROVE  GCInv'
  BY <1>0, <1>5, SweepKeeps, HeapStep DEF Do
<1>6. ASSUME NEW s, Do([g EXCEPT !.gcstate = s]), s = "sweep" \/ g.unswept = {}
      PROVE  GCInv'
  <2>1. PICK h : h = [g EXCEPT !.gcstate = s]
    OBVIOUS
  <2>2. /\ IsHeap(h) /\ h.tmudata = g.tmudata /\ h.finalized = g.finalized
        /\ h.unswept = g.unswept /\ h.marked = g.marked /\ h.gcstate = s
    BY <1>0, <2>1 DEF IsHeap
  <2>3. TmRight(h, called)
    BY <1>0, <2>2 DEF TmRight
  <2> QED BY <1>6, <2>1, <2>2, <2>3, HeapStep DEF Do
<1>7. CASE SweepString
  BY <1>5, <1>6, <1>7 DEF SweepString, Strings, Collect
<1>8. CASE Sweep
  BY <1>5, <1>6, <1>8 DEF Sweep, Collect
<1>9. ASSUME NEW i, Finalize(i)  PROVE GCInv'
  BY <1>9, FinalizeInv
<1>10. CASE FullGC
  <2>1. PICK h : h = [g EXCEPT !.gray = {}, !.grayagain = {}, !.weak = {},
                               !.unswept = Listed(g), !.gcstate = "sweepstring"]
    OBVIOUS
  <2>2. CASE g' = h /\ UNCHANGED <<scene, called>>
    <3>1. /\ IsHeap(h) /\ h.tmudata = g.tmudata /\ h.finalized = g.finalized
          /\ h.unswept = Listed(g) /\ h.marked = g.marked /\ h.gcstate = "sweepstring"
      BY <1>0, <2>1 DEF IsHeap
    <3>2. /\ \A o \in Listed(g) : g.marked[o] # "free"
          /\ \A i \in 1 .. Len(g.tmudata) : g.tmudata[i] \notin Listed(g)
      <4>1. DOMAIN g.tmudata = 1 .. Len(g.tmudata)
        BY <1>0 DEF TmRight
      <4> QED BY <4>1 DEF Listed, Allocated, Pending
    <3>3. TmRight(h, called)
      BY <1>0, <3>1, <3>2 DEF TmRight
    <3> QED BY <2>2, <3>1, <3>3, HeapStep
  <2>3. CASE /\ g.gcstate = "finalize" /\ UNCHANGED <<scene, called>>
             /\ g' = [reallymark(markrootLists(g), RootSet) EXCEPT !.gcstate = "propagate"]
    BY <1>1, <2>3
  <2> QED BY <1>10, <2>1, <2>2, <2>3 DEF FullGC
<1> QED BY <1>2, <1>3, <1>4, <1>7, <1>8, <1>9, <1>10 DEF Collector

(* The finalizer of a userdata is called at most once, for every program   *)
(* and every scene of objects: through steps of the collector between any  *)
(* two of the program, a full collection at any time, userdata that their  *)
(* finalizer brings back to life, and addresses that are used again        *)
(* (separateudata and GCTM, lgc.c:128-155 and 445-471).                    *)
THEOREM FinalizersCalledOnce == Spec => []FinalizedOnce
<1>1. GCInv /\ [Next]_vars => GCInv'
  <2> SUFFICES ASSUME GCInv, [Next]_vars PROVE GCInv'
    OBVIOUS
  <2>1. CASE UNCHANGED vars
    <3>1. Quiet(g, g') /\ UNCHANGED <<scene, called>>
      BY <2>1, QuietSelf DEF vars, GCInv
    <3> QED BY <3>1, QuietStep
  <2> QED BY <2>1, ProgramInv, CollectorInv DEF Next
<1>2. GCInv => FinalizedOnce
  BY DEF GCInv, FinalizedOnce
<1> QED BY <1>1, <1>2, InitGCInv, PTL DEF Spec
=============================================================================
