----------------------------- MODULE LuaTabLib -----------------------------
(***************************************************************************)
(* The table library, ltablib.c: insert, remove, concat and sort on a      *)
(* table used as an array.  A table is a function from a range of integers *)
(* that reaches past both ends of the array; Nil marks an absent element.  *)
(***************************************************************************)
EXTENDS Integers, Sequences, FiniteSets, SequencesExt

CONSTANTS SortCases,    \* [seq, lt, nils]: an array and an order function
          MaxSort       \* bound on the partitions of one sort

(***************************************************************************)
(* An order function is the set lt of the pairs <<a, b>> for which it says *)
(* "a < b"; nils is whether it answers for nil too, or raises an error as  *)
(* the operator < does.                                                    *)
(***************************************************************************)

VARIABLES sortCase, sortDone

tabVars == <<sortCase, sortDone>>

Nil == 0

lua_rawgeti(a, i) == IF i \in DOMAIN a THEN a[i] ELSE Nil

AsTable(seq) == [i \in -1..(Len(seq) + 2) |-> IF i \in DOMAIN seq THEN seq[i] ELSE Nil]

(***************************************************************************)
(* luaL_getn: a border (ltable.c); for an array without holes its length.  *)
(***************************************************************************)
ArrayBorder(a, n) ==
  /\ n \in DOMAIN a \cup {0}
  /\ n = 0 \/ a[n] # Nil
  /\ lua_rawgeti(a, n + 1) = Nil

aux_getn(a) == CHOOSE n \in 0..Cardinality(DOMAIN a) : ArrayBorder(a, n)

(***************************************************************************)
(* insert: the elements from pos to e - 1 move up, the last one first;     *)
(* remove: those from pos + 1 to e move down, the first one first.         *)
(***************************************************************************)
RECURSIVE MoveUp(_, _, _)
MoveUp(a, i, pos) ==
  IF i > pos THEN MoveUp([a EXCEPT ![i] = lua_rawgeti(a, i - 1)], i - 1, pos) ELSE a

tinsert(a, pos, v) ==
  LET n == aux_getn(a) + 1
      e == IF pos > n THEN pos ELSE n
  IN  [MoveUp(a, e, pos) EXCEPT ![pos] = v]

RECURSIVE MoveDown(_, _, _)
MoveDown(a, pos, e) ==
  IF pos < e THEN MoveDown([a EXCEPT ![pos] = lua_rawgeti(a, pos + 1)], pos + 1, e) ELSE a

tremove(a, pos) ==
  LET e == aux_getn(a)
  IN  IF pos \notin 1..e THEN a ELSE [MoveDown(a, pos, e) EXCEPT ![e] = Nil]

(***************************************************************************)
(* concat: the values from i to last with the separator between them, an   *)
(* error, <<-1>>, for an absent one.                                       *)
(***************************************************************************)
RECURSIVE tconcat(_, _, _, _)
tconcat(a, sep, i, last) ==
  LET rest == tconcat(a, sep, i + 1, last) IN
  IF i > last THEN << >>
  ELSE IF lua_rawgeti(a, i) = Nil THEN <<-1>>
  ELSE IF i = last THEN <<lua_rawgeti(a, i)>>
  ELSE IF rest = <<-1>> THEN rest
  ELSE <<lua_rawgeti(a, i), sep>> \o rest

(***************************************************************************)
(* sort.  x is [a, err, left]: the table, whether an error was raised, and *)
(* how many more partitions are tried.                                     *)
(***************************************************************************)
Raised(x) == [x EXCEPT !.err = "error"]

sort_comp(f, a, b) == <<a, b>> \in f.lt

Refuses(f, a, b) == ~f.nils /\ Nil \in {a, b}

set2(x, i, j) ==
  [x EXCEPT !.a[i] = lua_rawgeti(x.a, j), !.a[j] = lua_rawgeti(x.a, i)]

(***************************************************************************)
(* Compare-and-swap of the places i < j, as the first lines of auxsort do  *)
(* three times.                                                            *)
(***************************************************************************)
Ordered(x, f, i, j) == IF sort_comp(f, x.a[j], x.a[i]) THEN set2(x, i, j) ELSE x

(***************************************************************************)
(* auxsort up to the pivot: a[l], a[(l+u)/2] and a[u] in order.  The third *)
(* comparison is only made if the second one did not swap.                 *)
(***************************************************************************)
\* Mutant of MedianOfThree: a[(l+u)/2] is not compared with a[u].
BugMedianOfThree(x, f, l, u) ==
  LET i == (l + u) \div 2
      x1 == Ordered(x, f, l, u)
  IN  IF u - l = 1 THEN x1 ELSE Ordered(x1, f, l, i)

MedianOfThree(x, f, l, u) ==
  LET i == (l + u) \div 2
      x1 == Ordered(x, f, l, u)
  IN  IF u - l = 1 THEN x1
      ELSE IF sort_comp(f, x1.a[i], x1.a[l]) THEN set2(x1, i, l)
      ELSE Ordered(x1, f, i, u)

(***************************************************************************)
(* The two inner loops: where the scan from i stops, -1 for an error.      *)
(***************************************************************************)
RECURSIVE ScanUp(_, _, _, _, _)
ScanUp(x, f, P, i, u) ==
  LET v == lua_rawgeti(x.a, i) IN
  IF Refuses(f, v, P) THEN -1
  ELSE IF ~sort_comp(f, v, P) THEN i
  ELSE IF i > u THEN -1
  ELSE ScanUp(x, f, P, i + 1, u)

RECURSIVE ScanDown(_, _, _, _, _)
ScanDown(x, f, P, j, l) ==
  LET v == lua_rawgeti(x.a, j) IN
  IF Refuses(f, P, v) THEN -1
  ELSE IF ~sort_comp(f, P, v) THEN j
  ELSE IF j < l THEN -1
  ELSE ScanDown(x, f, P, j - 1, l)

(***************************************************************************)
(* The loop that partitions around P: [x, i] with the place for the pivot. *)
(***************************************************************************)
RECURSIVE Partition(_, _, _, _, _, _, _)
Partition(x, f, P, i0, j0, l, u) ==
  LET i == ScanUp(x, f, P, i0 + 1, u)
      j == ScanDown(x, f, P, j0 - 1, l)
  IN  IF i = -1 \/ j = -1 THEN [x |-> Raised(x), i |-> 0]
      ELSE IF j < i THEN [x |-> x, i |-> i]
      ELSE Partition(set2(x, i, j), f, P, i, j, l, u)

Halves(i, l, u) ==
  IF i - l < u - i THEN [smaller |-> <<l, i - 1>>, larger |-> <<i + 1, u>>]
  ELSE [smaller |-> <<i + 1, u>>, larger |-> <<l, i - 1>>]

RECURSIVE auxsort(_, _, _, _)
auxsort(x, f, l, u) ==
  LET x1 == MedianOfThree(x, f, l, u)
      i == (l + u) \div 2
      P == x1.a[i]
      r == Partition(set2(x1, i, u - 1), f, P, l, u - 1, l, u)
      x2 == [set2(r.x, u - 1, r.i) EXCEPT !.left = @ - 1]
      h == Halves(r.i, l, u)
      x3 == auxsort(x2, f, h.smaller[1], h.smaller[2])
  IN  IF x.err # "" \/ l >= u THEN x
      ELSE IF x.left = 0 THEN [x EXCEPT !.err = "endless"]
      ELSE IF u - l <= 2 THEN x1
      ELSE IF r.x.err # "" THEN r.x
      ELSE auxsort(x3, f, h.larger[1], h.larger[2])

sort(a, f) == auxsort([a |-> a, err |-> "", left |-> MaxSort], f, 1, aux_getn(a))

TabInit == sortCase \in SortCases /\ sortDone = FALSE

SortCase == ~sortDone /\ sortDone' = TRUE /\ UNCHANGED sortCase

TabNext == SortCase

-----------------------------------------------------------------------------
Values(seq) == ToSet(seq)

StrictWeakOrder(lt, S) ==
  /\ \A a \in S : <<a, a>> \notin lt
  /\ \A a, b, c \in S : <<a, b>> \in lt /\ <<b, c>> \in lt => <<a, c>> \in lt
  /\ \A a, b, c \in S : <<a, c>> \in lt => <<a, b>> \in lt \/ <<b, c>> \in lt

Elements(a) == [v \in {a[i] : i \in DOMAIN a} \ {Nil} |->
                  Cardinality({i \in DOMAIN a : a[i] = v})]

InPlaceOf(a, n) == \A i \in DOMAIN a : (a[i] = Nil) = (i \notin 1..n)

(***************************************************************************)
(* sort with a valid order function sorts: afterwards no element is less   *)
(* than the one before it, and none is lost, doubled or moved out of the   *)
(* array (ltablib.c:193-254).                                              *)
(***************************************************************************)
SortsCase(c) ==
  LET n == Len(c.seq)
      x == sort(AsTable(c.seq), c)
  IN  StrictWeakOrder(c.lt, Values(c.seq)) =>
        /\ x.err = ""
        /\ \A i \in 1..(n - 1) : <<x.a[i + 1], x.a[i]>> \notin c.lt
        /\ Elements(x.a) = Elements(AsTable(c.seq))
        /\ InPlaceOf(x.a, n)

(***************************************************************************)
(* With an order function that contradicts itself sort ends, if only with  *)
(* "invalid order function" (ltablib.c:227, 232), and the elements are     *)
(* still the same ones.  They are still in the array too, if the function  *)
(* fails for nil; one that answers for nil may have the pivot exchanged    *)
(* with the cell behind the array, no further (ltablib.c:241-243).         *)
(***************************************************************************)
EndsCase(c) ==
  LET n == Len(c.seq)
      x == sort(AsTable(c.seq), c)
  IN  /\ x.err # "endless"
      /\ Elements(x.a) = Elements(AsTable(c.seq))
      /\ \A i \in DOMAIN x.a : i \notin 1..(n + 1) => x.a[i] = Nil
      /\ c.nils \/ InPlaceOf(x.a, n)

JoinedBy(seq, sep) ==
  SubSeq([i \in 1..(2 * Len(seq) - 1) |-> IF i % 2 = 0 THEN sep ELSE seq[(i + 1) \div 2]],
         1, 2 * Len(seq) - 1)

(***************************************************************************)
(* insert and remove edit the array as a sequence is edited, at every      *)
(* place, and the moves lose no element at either end                      *)
(* (ltablib.c:101-105, 125-130); concat joins what lies between its bounds *)
(* (ltablib.c:153-158).                                                    *)
(***************************************************************************)
EditsCase(c) ==
  LET a == AsTable(c.seq)
      n == Len(c.seq)
      Same(b, seq) == \A i \in DOMAIN b : b[i] = IF i \in DOMAIN seq THEN seq[i] ELSE Nil
  IN  /\ \A pos \in 1..(n + 1) : Same(tinsert(a, pos, 9), InsertAt(c.seq, pos, 9))
      /\ \A pos \in 1..n : Same(tremove(a, pos), RemoveAt(c.seq, pos))
      /\ \A pos \in {0, n + 1} : tremove(a, pos) = a
      /\ \A i \in 1..(n + 1), j \in 0..n : i <= j + 1 =>
           tconcat(a, 9, i, j) = JoinedBy(SubSeq(c.seq, i, j), 9)

(***************************************************************************)
(* The functions of ltablib.c keep an array an array: sort sorts it or at  *)
(* least ends, and the others edit it as a sequence (ltablib.c:90-279).    *)
(***************************************************************************)
ArraysRight ==
  [][SortCase => SortsCase(sortCase) /\ EndsCase(sortCase) /\ EditsCase(sortCase)]_tabVars
=============================================================================
