------------------------------ MODULE LuaTable ------------------------------
(***************************************************************************)
(* The tables of the vendored Lua (depends/lua/src/ltable.c): an array     *)
(* part and a hash part of chained scatter nodes with Brent's variation,   *)
(* resized together by rehash, traversed by luaH_next, measured by         *)
(* luaH_getn.                                                              *)
(*                                                                         *)
(* Keys are integers: a positive one is a number, a negative one stands    *)
(* for a string (any other collectable key hashes the same way).  Hash is  *)
(* the hash value of a key before it is reduced to a position.  The value  *)
(* stored under a key is the key itself, so that a mixed-up slot shows;    *)
(* 0 is nil.                                                               *)
(***************************************************************************)
EXTENDS Integers, Sequences, FiniteSets, SequencesExt

CONSTANTS Keys, Hash

VARIABLES
    t,          \* the Table: [array, node, lastfree, dummy]
    fits,       \* no insertion of a resize has needed another resize
    content,    \* the keys that were set and not cleared since
    walk        \* a traversal: where it is, and the keys it has still to meet

tableVars == <<t, fits, content, walk>>

nil == 0
IsNumber(k) == k > 0
\* A vector of n slots.  (SubSeq yields a sequence that TLC's SelectSeq reads
\* correctly after an EXCEPT; it is the identity here.)
Vector(n, f) == SubSeq(f, 1, n)
NoNode == [key |-> nil, dead |-> FALSE, val |-> nil, next |-> 0]

sizearray(x) == Len(x.array)
sizenode(x) == Len(x.node)

\* hashmod for numbers (an odd modulus), hashpow2 for strings; positions
\* count from 1 and 0 is the null pointer.
mainposition(x, k) ==
    LET n == sizenode(x)
        odd == IF n = 1 THEN 1 ELSE n - 1
    IN  1 + (IF IsNumber(k) THEN Hash[k] % odd ELSE Hash[k] % n)

InArray(x, k) == 0 < k /\ k <= sizearray(x)

\* The nodes of the chain through i, in order.
ChainFrom(x, i) ==
    LET c[n \in 0..sizenode(x)] ==
            IF n = 0 THEN <<i>>
            ELSE LET s == c[n - 1] IN
                 IF x.node[Last(s)].next = 0 THEN s ELSE Append(s, x.node[Last(s)].next)
    IN  c[sizenode(x)]

Holding(x, k) ==
    SelectSeq(ChainFrom(x, mainposition(x, k)),
              LAMBDA i : x.node[i].key = k /\ ~x.node[i].dead)

\* luaH_get, luaH_getnum, luaH_getstr.
luaH_get(x, k) ==
    IF InArray(x, k) THEN x.array[k]
    ELSE LET h == Holding(x, k) IN IF h = <<>> THEN nil ELSE x.node[h[1]].val

Present(x, k) == InArray(x, k) \/ Holding(x, k) # <<>>

(***************************************************************************)
(* Insertion.                                                              *)
(***************************************************************************)
\* lastfree only moves down, past every position whose key was ever used.
getfreepos(x) ==
    LET free == {i \in 1..(x.lastfree - 1) : x.node[i].key = nil}
    IN  IF free = {} THEN 0 ELSE CHOOSE i \in free : \A j \in free : j <= i

NeedsPlace(x, k) == x.dummy \/ x.node[mainposition(x, k)].val # nil

\* Mutant of InsertNode: the moved node keeps its place in the chain.
BugInsertNode(x, k) ==
    LET mp == mainposition(x, k)
        n == getfreepos(x)
        y == [x EXCEPT !.lastfree = n]
    IN  IF ~NeedsPlace(x, k) THEN [x EXCEPT !.node[mp].key = k, !.node[mp].dead = FALSE,
                                            !.node[mp].val = k]
        ELSE IF mainposition(x, x.node[mp].key) # mp
        THEN [y EXCEPT !.node[n] = x.node[mp],
                       !.node[mp] = [NoNode EXCEPT !.key = k, !.val = k]]
        ELSE [y EXCEPT !.node[n] = [NoNode EXCEPT !.key = k, !.val = k, !.next = x.node[mp].next],
                       !.node[mp].next = n]

\* newkey where a place can be found, followed by the caller's store of the
\* value.  A node that collides out of its main position moves to the free
\* place; a free main position keeps the chain of the key it held before.
InsertNode(x, k) ==
    LET mp == mainposition(x, k)
        n == getfreepos(x)
        othern == mainposition(x, x.node[mp].key)
        prev == CHOOSE i \in ToSet(ChainFrom(x, othern)) : x.node[i].next = mp
        y == [x EXCEPT !.lastfree = n]
    IN  IF ~NeedsPlace(x, k)
        THEN [x EXCEPT !.node[mp].key = k, !.node[mp].dead = FALSE, !.node[mp].val = k]
        ELSE IF othern # mp
        THEN [y EXCEPT !.node[prev].next = n,
                       !.node[n] = x.node[mp],
                       !.node[mp] = [NoNode EXCEPT !.key = k, !.val = k]]
        ELSE [y EXCEPT !.node[n] = [NoNode EXCEPT !.key = k, !.val = k,
                                                  !.next = x.node[mp].next],
                       !.node[mp].next = n]

HasPlace(x, k) == NeedsPlace(x, k) => ~x.dummy /\ getfreepos(x) # 0

StoreAt(x, k, v) ==
    IF InArray(x, k) THEN [x EXCEPT !.array[k] = v]
    ELSE [x EXCEPT !.node[Holding(x, k)[1]].val = v]

(***************************************************************************)
(* Rehash.                                                                 *)
(***************************************************************************)
ceillog2(n) == CHOOSE i \in 0..n : 2^i >= n /\ (i = 0 \/ 2^(i - 1) < n)

LiveNodes(x) == SelectSeq(x.node, LAMBDA n : n.val # nil)
ArrayKeys(x) == {i \in DOMAIN x.array : x.array[i] # nil}
HashKeys(x) == {LiveNodes(x)[i].key : i \in DOMAIN LiveNodes(x)}

\* numusearray, numusehash and countint count the integer keys by powers of
\* two; computesizes takes the largest size more than half in use whose last
\* slice is not empty.
computesizes(ints) ==
    LET upto(n) == Cardinality({k \in ints : k <= n})
        slice(n) == {k \in ints : n \div 2 < k /\ k <= n}
        good == {n \in {2^i : i \in 0..Cardinality(ints)} :
                   /\ n \div 2 < Cardinality(ints)
                   /\ slice(n) # {}
                   /\ upto(n) > n \div 2}
    IN  IF good = {} THEN 0 ELSE CHOOSE n \in good : \A m \in good : m <= n

setnodevector(n) ==
    LET size == IF n = 0 THEN 1 ELSE 2^ceillog2(n)
    IN  [node |-> Vector(size, [i \in 1..size |-> NoNode]), lastfree |-> IF n = 0 THEN 1 ELSE size + 1,
         dummy |-> n = 0]

\* resize: the array part is cut or extended, the hash part built anew; the
\* array slots cut off, then the old nodes from the last to the first, are
\* inserted again.  ok tells whether each of them found a place.
resize(x, nasize, nhsize) ==
    LET new == setnodevector(nhsize)
        y == [array |-> Vector(nasize, [i \in 1..nasize |->
                                        IF i <= sizearray(x) THEN x.array[i] ELSE nil]),
              node |-> new.node, lastfree |-> new.lastfree, dummy |-> new.dummy]
        cut == SelectSeq([i \in 1..sizearray(x) |-> i],
                         LAMBDA i : i > nasize /\ x.array[i] # nil)
        old == [i \in DOMAIN LiveNodes(x) |-> Reverse(LiveNodes(x))[i].key]
        put(r, k) == IF Present(r.x, k) THEN [r EXCEPT !.x = StoreAt(r.x, k, k)]
                     ELSE IF HasPlace(r.x, k) THEN [r EXCEPT !.x = InsertNode(r.x, k)]
                     ELSE [r EXCEPT !.ok = FALSE]
    IN  FoldLeft(put, [x |-> y, ok |-> TRUE], cut \o old)

rehash(x, k) ==
    LET ints == {i \in ArrayKeys(x) \union HashKeys(x) \union {k} : IsNumber(i)}
        nasize == computesizes(ints)
        na == Cardinality({i \in ints : i <= nasize})
        total == Cardinality(ArrayKeys(x) \union HashKeys(x)) + 1
    IN  resize(x, nasize, total - na)

(***************************************************************************)
(* Actions.                                                                *)
(***************************************************************************)
luaH_new(narray, nhash) ==
    LET new == setnodevector(nhash)
    IN  [array |-> Vector(narray, [i \in 1..narray |-> nil]),
         node |-> new.node, lastfree |-> new.lastfree, dummy |-> new.dummy]

NoWalk == [key |-> nil, left |-> {}, on |-> FALSE]

TableInit ==
    /\ t = luaH_new(0, 0)
    /\ fits = TRUE
    /\ content = {}
    /\ walk = NoWalk

\* luaH_set and the assignment of a value: an existing key is overwritten, a
\* new one inserted, after a rehash when no place is left.  A traversal does
\* not survive a new key.
luaH_set(k) ==
    /\ content' = content \union {k}
    /\ IF Present(t, k)
       THEN t' = StoreAt(t, k, k) /\ UNCHANGED <<fits, walk>>
       ELSE /\ walk' = NoWalk
            /\ IF HasPlace(t, k)
               THEN t' = InsertNode(t, k) /\ UNCHANGED fits
               ELSE LET r == rehash(t, k)
                        again == Present(r.x, k) \/ HasPlace(r.x, k)
                    IN  /\ fits' = (fits /\ r.ok /\ again)
                        /\ t' = IF Present(r.x, k) THEN StoreAt(r.x, k, k)
                                ELSE IF again THEN InsertNode(r.x, k) ELSE r.x

\* The assignment of nil to a key that is there keeps its node.
SetNil(k) ==
    /\ Present(t, k)
    /\ t' = StoreAt(t, k, nil)
    /\ content' = content \ {k}
    /\ walk' = [walk EXCEPT !.left = @ \ {k}]
    /\ UNCHANGED fits

\* removeentry of the collector: a string key without a value turns dead.
RemoveEntry(i) ==
    /\ t.node[i].val = nil
    /\ t.node[i].key < 0
    /\ ~t.node[i].dead
    /\ t' = [t EXCEPT !.node[i].dead = TRUE]
    /\ UNCHANGED <<fits, content, walk>>

\* OP_SETLIST grows the array part ahead of its stores.
luaH_resizearray(n) ==
    /\ n > sizearray(t)
    /\ LET r == resize(t, n, IF t.dummy THEN 0 ELSE sizenode(t))
       IN  t' = r.x /\ fits' = (fits /\ r.ok)
    /\ walk' = NoWalk
    /\ UNCHANGED content

\* findindex: array slots first, then nodes; a dead key still marks a place.
findindex(x, k) ==
    IF k = nil THEN 0
    ELSE IF InArray(x, k) THEN k
    ELSE sizearray(x) +
         SelectSeq(ChainFrom(x, mainposition(x, k)), LAMBDA i : x.node[i].key = k)[1]

\* Mutant of next: a key off its main position is taken to be there.
Bugnext(x, k) ==
    LET from == IF k = nil THEN 0 ELSE IF InArray(x, k) THEN k
                ELSE sizearray(x) + mainposition(x, k)
        at(i) == IF i <= sizearray(x) THEN x.array[i] ELSE x.node[i - sizearray(x)].val
        rest == SelectSeq([i \in 1..(sizearray(x) + sizenode(x)) |-> i],
                          LAMBDA i : i > from /\ at(i) # nil)
    IN  IF rest = <<>> THEN nil ELSE at(rest[1])

next(x, k) ==
    LET at(i) == IF i <= sizearray(x) THEN x.array[i] ELSE x.node[i - sizearray(x)].val
        rest == SelectSeq([i \in 1..(sizearray(x) + sizenode(x)) |-> i],
                          LAMBDA i : i > findindex(x, k) /\ at(i) # nil)
    IN  IF rest = <<>> THEN nil ELSE at(rest[1])

luaH_next ==
    /\ LET k == next(t, walk.key)
           left == IF walk.on THEN walk.left ELSE content
       IN  walk' = [key |-> k, left |-> left \ {k}, on |-> k # nil]
    /\ UNCHANGED <<t, fits, content>>

(***************************************************************************)
(* luaH_getn.                                                              *)
(***************************************************************************)
\* Halves the interval between a present i and an absent j.
Bisect(x, lo, hi) ==
    LET b[n \in 0..hi] ==
            IF n = 0 THEN <<lo, hi>>
            ELSE LET p == b[n - 1]
                     m == (p[1] + p[2]) \div 2
                 IN  IF p[2] - p[1] <= 1 THEN p
                     ELSE IF luaH_get(x, m) = nil THEN <<p[1], m>> ELSE <<m, p[2]>>
    IN  b[hi][1]

\* Doubles j until it is absent, from the end of the array part.
unbound_search(x, j) ==
    LET d[n \in 0..Cardinality(Keys)] ==
            IF n = 0 THEN <<j, j + 1>>
            ELSE LET p == d[n - 1] IN
                 IF luaH_get(x, p[2]) = nil THEN p ELSE <<p[2], 2 * p[2]>>
        p == d[Cardinality(Keys)]
    IN  Bisect(x, p[1], p[2])

\* Mutant of luaH_getn: the hash part is not searched.
BugluaH_getn(x) ==
    LET j == sizearray(x)
    IN  IF j > 0 /\ x.array[j] = nil THEN Bisect(x, 0, j) ELSE j

luaH_getn(x) ==
    LET j == sizearray(x)
    IN  IF j > 0 /\ x.array[j] = nil THEN Bisect(x, 0, j)
        ELSE IF x.dummy THEN j
        ELSE unbound_search(x, j)

TableNext ==
    \/ \E k \in Keys : luaH_set(k) \/ SetNil(k)
    \/ \E i \in 1..sizenode(t) : RemoveEntry(i)
    \/ \E n \in 1..2 : luaH_resizearray(n)
    \/ luaH_next

(***************************************************************************)
(* Properties.                                                             *)
(***************************************************************************)
\* The table is a map: looking a key up yields what was last stored under it,
\* through every collision, move, stale node and rehash (ltable.c:399-429); and
\* the sizes rehash computes hold every key, so that reinserting them, and the
\* new key after them, never runs out of places.
TableIsMap ==
    /\ fits
    /\ \A k \in Keys : luaH_get(t, k) = IF k \in content THEN k ELSE nil

\* A traversal during which keys are overwritten or cleared, and cleared keys
\* die, still meets every key that stays (ltable.c:146: "key may be dead
\* already, but it is ok to use it in `next'").
TraversalMeetsAll ==
    ~walk.on => walk.left = {}

\* luaH_getn finds a boundary (ltable.c:556: "t[i] is non-nil and t[i+1] is nil
\* (and 0 if t[1] is nil)").
BoundaryFound ==
    LET n == luaH_getn(t)
    IN  /\ n = 0 \/ luaH_get(t, n) # nil
        /\ luaH_get(t, n + 1) = nil
=============================================================================
