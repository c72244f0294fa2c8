------------------------------ MODULE StringT ------------------------------
(***************************************************************************)
(* string_t of core/ax_string.cc: short text lies inside the object, long  *)
(* text in a heap block, and the last byte of the object says which.       *)
(*                                                                         *)
(* A string is its type, the text a C reader finds behind c_str(), and     *)
(* what len() and capacity() answer.  Wild is the text behind a pointer    *)
(* that strcat has written over, Uninit the text of a buffer nobody filled.*)
(* Two strings, so that one can be assigned or appended to the other.      *)
(***************************************************************************)
EXTENDS Integers, Sequences

CONSTANTS
  MAX_SMALL_LEN,  \* sizeof(LargerStr) - 2
  Texts,          \* texts given to the operations
  MaxLen          \* bound on the length of a text

ASSUME StringAssumption ==
  MAX_SMALL_LEN \in Nat /\ MaxLen \in Nat /\ Texts \subseteq Seq(Int)

VARIABLES
  str,            \* the two strings
  want,           \* the text each of them should hold
  misused         \* the strings some use has taken outside of what works

strVars == <<str, want, misused>>

Strings == {1, 2}
Wild == <<-1>>
Uninit == <<-2>>

Small(t) == [type |-> "SMALL_STR", text |-> t, len |-> Len(t), capacity |-> MAX_SMALL_LEN]

Larger(t, cap) == [type |-> "LARGER_STR", text |-> t, len |-> Len(t), capacity |-> cap]

(* Mutant of FromCstr: one byte more is taken to fit, over the type byte.  *)
BugFromCstr(t) ==
  IF Len(t) <= MAX_SMALL_LEN + 1 THEN [Small(t) EXCEPT !.len = Len(t) % (MAX_SMALL_LEN + 1)]
  ELSE Larger(t, Len(t))

(* The constructor from a C string, and assign.                            *)
FromCstr(t) == IF Len(t) <= MAX_SMALL_LEN THEN Small(t) ELSE Larger(t, Len(t))

(* The copy constructor, and operator= from another string.  The copy of a *)
(* larger string gets just the room its text needs.                        *)
CopyOf(s) == IF s.type = "SMALL_STR" THEN s ELSE [s EXCEPT !.capacity = s.len]

StrInit ==
  /\ \E t, u \in Texts : str = <<FromCstr(t), FromCstr(u)>> /\ want = <<t, u>>
  /\ misused = {}

(* expand: the text of an empty small string is not copied, the temporary  *)
(* it would have been copied to is.                                        *)
Expanded(s, n) ==
  IF n < MAX_SMALL_LEN THEN s
  ELSE IF s.type = "SMALL_STR"
       THEN [Larger(IF s.len > 0 THEN s.text ELSE Uninit, n) EXCEPT !.len = s.len]
       ELSE IF n > s.capacity THEN [s EXCEPT !.capacity = n] ELSE s

(* strcat: a result that is short is built inside the object even when the *)
(* text lies in a block; there it runs into the pointer to the block.      *)
Appended(s, t) ==
  LET n == s.len + Len(t)
      e == IF n > s.capacity THEN Expanded(s, n) ELSE s
  IN  IF n > MAX_SMALL_LEN THEN [e EXCEPT !.text = @ \o t, !.len = n]
      ELSE IF e.type = "SMALL_STR" THEN [e EXCEPT !.text = @ \o t, !.len = n]
      ELSE [e EXCEPT !.text = Wild]

StrAssign(i, t) ==
  /\ str' = [str EXCEPT ![i] = FromCstr(t)]
  /\ want' = [want EXCEPT ![i] = t]
  /\ misused' = misused \ {i}

(* operator= clears the target first, so a string assigned to itself is    *)
(* empty.                                                                  *)
StrCopy(i, j) ==
  /\ str' = [str EXCEPT ![i] = IF i = j THEN Small(<<>>) ELSE CopyOf(str[j])]
  /\ want' = [want EXCEPT ![i] = want[j]]
  /\ misused' = IF i = j \/ j \in misused THEN misused \cup {i} ELSE misused \ {i}

StrCat(i, t) ==
  /\ Len(want[i]) + Len(t) <= MaxLen
  /\ str[i].text # Wild
  /\ str' = [str EXCEPT ![i] = Appended(@, t)]
  /\ want' = [want EXCEPT ![i] = @ \o t]
  /\ misused' = IF \/ str[i].type = "LARGER_STR" /\ Len(want[i] \o t) <= MAX_SMALL_LEN
                   \/ want[i] = <<>> /\ Len(t) > MAX_SMALL_LEN
                THEN misused \cup {i} ELSE misused

StrExpand(i, n) ==
  /\ str' = [str EXCEPT ![i] = Expanded(@, n)]
  /\ misused' = IF want[i] = <<>> /\ n >= MAX_SMALL_LEN THEN misused \cup {i} ELSE misused
  /\ UNCHANGED want

StrClear(i) ==
  /\ str' = [str EXCEPT ![i] = Small(<<>>)]
  /\ want' = [want EXCEPT ![i] = <<>>]
  /\ misused' = misused \ {i}

StrNext ==
  \E i \in Strings :
    \/ \E t \in Texts : StrAssign(i, t) \/ StrCat(i, t)
    \/ \E j \in Strings : StrCopy(i, j)
    \/ 3 - i \notin misused /\ StrCat(i, str[3 - i].text)
    \/ \E n \in 0 .. MaxLen : StrExpand(i, n)
    \/ StrClear(i)

StrSpec == StrInit /\ [][StrNext]_strVars

-----------------------------------------------------------------------------
(* A string holds the text it was given, with the length len() says and    *)
(* within the capacity capacity() says, through any mixture of assign,     *)
(* operator=, strcat and expand across the border between the two layouts; *)
(* except after the three uses that break it: text appended to a reserved  *)
(* string that stays short, long text appended to (or room reserved for)   *)
(* an empty string, and assignment to itself.                              *)
TextKept ==
  \A i \in Strings \ misused :
    /\ str[i].text = want[i]
    /\ str[i].len = Len(want[i])
    /\ str[i].len <= str[i].capacity
    /\ str[i].type = "SMALL_STR" => str[i].len <= MAX_SMALL_LEN
=============================================================================
