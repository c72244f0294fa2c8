------------------------------ MODULE LuaMatch ------------------------------
(***************************************************************************)
(* Pattern matching of the string library, lstrlib.c: find, match, gmatch  *)
(* and gsub.  A character is its code, a string the sequence of its        *)
(* characters, and a pointer the position it points at; At reads the '\0'  *)
(* behind the last one.  NULL is 0.                                        *)
(*                                                                         *)
(* ms is the MatchState: the subject, the pattern, and the `level' first   *)
(* captures.  An operator that may call luaL_error answers [ms, s] with    *)
(* ms.err set, and no caller goes on from there.                           *)
(***************************************************************************)
EXTENDS Integers, Sequences, SequencesExt

CONSTANT LUA_MAXCAPTURES

CAP_UNFINISHED == -1
CAP_POSITION == -2

NUL == 0
DOLLAR == 36
L_ESC == 37
LPAREN == 40
RPAREN == 41
STAR == 42
PLUS == 43
MINUS == 45
DOT == 46
QUEST == 63
LBRACKET == 91
RBRACKET == 93
CARET == 94
Char_b == 98
Char_f == 102
SPECIALS == {CARET, DOLLAR, STAR, PLUS, QUEST, DOT, LPAREN, LBRACKET, L_ESC, MINUS}

At(string, i) == IF i \in DOMAIN string THEN string[i] ELSE NUL

Lower == 97..122
Upper == 65..90
Digit == 48..57
Alpha == Lower \cup Upper

src_end(ms) == Len(ms.src) + 1

luaL_error(ms) == [ms |-> [ms EXCEPT !.err = TRUE], s |-> 0]

No(ms) == [ms |-> ms, s |-> 0]

(***************************************************************************)
(* The class letters of match_class for the characters of the "C" locale.  *)
(***************************************************************************)
ClassSet(l) ==
  CASE l = 97 -> Alpha
    [] l = 99 -> (0..31) \cup {127}
    [] l = 100 -> Digit
    [] l = 108 -> Lower
    [] l = 112 -> (33..126) \ (Alpha \cup Digit)
    [] l = 115 -> (9..13) \cup {32}
    [] l = 117 -> Upper
    [] l = 119 -> Alpha \cup Digit
    [] l = 120 -> Digit \cup (97..102) \cup (65..70)
    [] l = 122 -> {0}

tolower(c) == IF c \in Upper THEN c + 32 ELSE c

match_class(c, cl) ==
  IF tolower(cl) \notin {97, 99, 100, 108, 112, 115, 117, 119, 120, 122} THEN cl = c
  ELSE (cl \in Lower) = (c \in ClassSet(tolower(cl)))

(***************************************************************************)
(* classend: where the class at p ends, 0 for a malformed one.             *)
(***************************************************************************)
RECURSIVE BracketEnd(_, _)
BracketEnd(pat, p) ==
  LET q == IF At(pat, p) = L_ESC /\ At(pat, p + 1) # NUL THEN p + 2 ELSE p + 1
  IN  IF At(pat, p) = NUL THEN 0
      ELSE IF At(pat, q) = RBRACKET THEN q + 1
      ELSE BracketEnd(pat, q)

classend(pat, p) ==
  CASE At(pat, p) = L_ESC -> IF At(pat, p + 1) = NUL THEN 0 ELSE p + 2
    [] At(pat, p) = LBRACKET ->
         BracketEnd(pat, IF At(pat, p + 1) = CARET THEN p + 2 ELSE p + 1)
    [] OTHER -> p + 1

(***************************************************************************)
(* matchbracketclass: InBracket is its loop, from p to the `]' at ec.      *)
(***************************************************************************)
RECURSIVE InBracket(_, _, _, _)
InBracket(c, pat, p, ec) ==
  IF p >= ec THEN FALSE
  ELSE IF At(pat, p) = L_ESC
  THEN match_class(c, At(pat, p + 1)) \/ InBracket(c, pat, p + 2, ec)
  ELSE IF At(pat, p + 1) = MINUS /\ p + 2 < ec
  THEN c \in At(pat, p)..At(pat, p + 2) \/ InBracket(c, pat, p + 3, ec)
  ELSE At(pat, p) = c \/ InBracket(c, pat, p + 1, ec)

matchbracketclass(c, pat, p, ec) ==
  IF At(pat, p + 1) = CARET
  THEN ~InBracket(c, pat, p + 2, ec)
  ELSE InBracket(c, pat, p + 1, ec)

singlematch(c, pat, p, ep) ==
  CASE At(pat, p) = DOT -> TRUE
    [] At(pat, p) = L_ESC -> match_class(c, At(pat, p + 1))
    [] At(pat, p) = LBRACKET -> matchbracketclass(c, pat, p, ep - 1)
    [] OTHER -> At(pat, p) = c

(***************************************************************************)
(* matchbalance: Balanced is its loop; 0 if the string ends too early.     *)
(***************************************************************************)
RECURSIVE Balanced(_, _, _, _, _)
Balanced(ms, s, b, e, cont) ==
  IF s >= src_end(ms) THEN 0
  ELSE IF At(ms.src, s) = e
  THEN IF cont = 1 THEN s + 1 ELSE Balanced(ms, s + 1, b, e, cont - 1)
  ELSE Balanced(ms, s + 1, b, e, IF At(ms.src, s) = b THEN cont + 1 ELSE cont)

matchbalance(ms, s, p) ==
  LET b == At(ms.pat, p)
      e == At(ms.pat, p + 1)
  IN  IF b = NUL \/ e = NUL THEN luaL_error(ms)
      ELSE [ms |-> ms,
            s |-> IF At(ms.src, s) # b THEN 0 ELSE Balanced(ms, s + 1, b, e, 1)]

(***************************************************************************)
(* Back references: the captures are numbered from 1 here too.             *)
(***************************************************************************)
CaptureOk(ms, l) ==
  l \in DOMAIN ms.capture /\ ms.capture[l].len # CAP_UNFINISHED

match_capture(ms, s, l) ==
  LET c == ms.capture[l]
      same == /\ c.len # CAP_POSITION       \* (size_t)len is too large
              /\ src_end(ms) - s >= c.len
              /\ SubSeq(ms.src, c.init, c.init + c.len - 1) = SubSeq(ms.src, s, s + c.len - 1)
  IN  IF ~CaptureOk(ms, l) THEN luaL_error(ms)
      ELSE [ms |-> ms, s |-> IF same THEN s + c.len ELSE 0]

RECURSIVE match(_, _, _)

(***************************************************************************)
(* max_expand: Longest is the count of its first loop, Shrink the second.  *)
(***************************************************************************)
RECURSIVE Longest(_, _, _, _)
Longest(ms, s, p, ep) ==
  IF s < src_end(ms) /\ singlematch(At(ms.src, s), ms.pat, p, ep)
  THEN 1 + Longest(ms, s + 1, p, ep)
  ELSE 0

RECURSIVE Shrink(_, _, _, _)
Shrink(ms, s, ep, i) ==
  IF i < 0 THEN No(ms)
  ELSE LET r == match(ms, s + i, ep + 1)
       IN  IF r.s # 0 \/ r.ms.err THEN r ELSE Shrink(r.ms, s, ep, i - 1)

max_expand(ms, s, p, ep) == Shrink(ms, s, ep, Longest(ms, s, p, ep))

RECURSIVE min_expand(_, _, _, _)
min_expand(ms, s, p, ep) ==
  LET r == match(ms, s, ep + 1)
  IN  IF r.s # 0 \/ r.ms.err THEN r
      ELSE IF s < src_end(ms) /\ singlematch(At(ms.src, s), ms.pat, p, ep)
      THEN min_expand(r.ms, s + 1, p, ep)
      ELSE No(r.ms)

start_capture(ms, s, p, what) ==
  LET r == match([ms EXCEPT !.capture = Append(@, [init |-> s, len |-> what])], s, p)
  IN  IF Len(ms.capture) >= LUA_MAXCAPTURES THEN luaL_error(ms)
      ELSE IF r.s = 0 /\ ~r.ms.err THEN No([r.ms EXCEPT !.capture = Front(@)])
      ELSE r

capture_to_close(ms) ==
  SelectLastInSeq(ms.capture, LAMBDA c : c.len = CAP_UNFINISHED)

\* Mutant of end_capture: a capture stays closed when the match behind it fails.
Bugend_capture(ms, s, p) ==
  LET l == capture_to_close(ms)
  IN  IF l = 0 THEN luaL_error(ms)
      ELSE match([ms EXCEPT !.capture[l].len = s - ms.capture[l].init], s, p)

end_capture(ms, s, p) ==
  LET l == capture_to_close(ms)
      r == match([ms EXCEPT !.capture[l].len = s - ms.capture[l].init], s, p)
  IN  IF l = 0 THEN luaL_error(ms)
      ELSE IF r.s = 0 /\ ~r.ms.err THEN No([r.ms EXCEPT !.capture[l].len = CAP_UNFINISHED])
      ELSE r

(***************************************************************************)
(* match: the case of a frontier, and that of a single item with its       *)
(* repetition (the label dflt).                                            *)
(***************************************************************************)
Frontier(ms, s, p) ==
  LET ep == classend(ms.pat, p)
      In(c) == matchbracketclass(c, ms.pat, p, ep - 1)
  IN  IF At(ms.pat, p) # LBRACKET \/ ep = 0 THEN luaL_error(ms)
      ELSE IF In(At(ms.src, s - 1)) \/ ~In(At(ms.src, s)) THEN No(ms)
      ELSE match(ms, s, ep)

Item(ms, s, p) ==
  LET ep == classend(ms.pat, p)
      m == s < src_end(ms) /\ singlematch(At(ms.src, s), ms.pat, p, ep)
      r == match(ms, s + 1, ep + 1)
  IN  IF ep = 0 THEN luaL_error(ms)
      ELSE CASE At(ms.pat, ep) = QUEST ->
                  IF m /\ (r.s # 0 \/ r.ms.err) THEN r
                  ELSE match(IF m THEN r.ms ELSE ms, s, ep + 1)
             [] At(ms.pat, ep) = STAR -> max_expand(ms, s, p, ep)
             [] At(ms.pat, ep) = PLUS -> IF m THEN max_expand(ms, s + 1, p, ep) ELSE No(ms)
             [] At(ms.pat, ep) = MINUS -> min_expand(ms, s, p, ep)
             [] OTHER -> IF m THEN match(ms, s + 1, ep) ELSE No(ms)

match(ms, s, p) ==
  LET c == At(ms.pat, p)
      d == At(ms.pat, p + 1)
      Then(r, q) == IF r.s = 0 THEN r ELSE match(ms, r.s, q)
  IN  CASE c = LPAREN /\ d = RPAREN -> start_capture(ms, s, p + 2, CAP_POSITION)
        [] c = LPAREN /\ d # RPAREN -> start_capture(ms, s, p + 1, CAP_UNFINISHED)
        [] c = RPAREN -> end_capture(ms, s, p + 1)
        [] c = L_ESC /\ d = Char_b -> Then(matchbalance(ms, s, p + 2), p + 4)
        [] c = L_ESC /\ d = Char_f -> Frontier(ms, s, p + 2)
        [] c = L_ESC /\ d \in Digit -> Then(match_capture(ms, s, d - 48), p + 2)
        [] c = NUL -> [ms |-> ms, s |-> s]
        [] c = DOLLAR /\ d = NUL -> IF s = src_end(ms) THEN [ms |-> ms, s |-> s] ELSE No(ms)
        [] OTHER -> Item(ms, s, p)
-----------------------------------------------------------------------------
(***************************************************************************)
(* What the functions push: a position <<"pos", n>> or a string            *)
(* <<"str", s>>, a sequence of them, << >> for nil, <<Err>> for an error.  *)
(***************************************************************************)
Err == <<"error">>

posrelat(pos, len) ==
  LET r == IF pos < 0 THEN pos + len + 1 ELSE pos IN IF r >= 0 THEN r ELSE 0

(***************************************************************************)
(* lmemfind: memchr finds the next candidate among the l1 - l2 + 1 places  *)
(* from s on that leave room for s2.                                       *)
(***************************************************************************)
RECURSIVE lmemfind(_, _, _)
lmemfind(s1, s, s2) ==
  LET last == Len(s1) - Len(s2) + 1
      at == {i \in s..last : s1[i] = s2[1]}
      init == CHOOSE i \in at : \A j \in at : i <= j
  IN  IF s2 = << >> THEN s
      ELSE IF at = {} THEN 0
      ELSE IF SubSeq(s1, init + 1, init + Len(s2) - 1) = Tail(s2) THEN init
      ELSE lmemfind(s1, init + 1, s2)

push_onecapture(ms, i, s, e) ==
  IF i > Len(ms.capture)
  THEN IF i = 1 THEN <<"str", SubSeq(ms.src, s, e - 1)>> ELSE Err
  ELSE LET c == ms.capture[i] IN
       CASE c.len = CAP_UNFINISHED -> Err
         [] c.len = CAP_POSITION -> <<"pos", c.init>>
         [] OTHER -> <<"str", SubSeq(ms.src, c.init, c.init + c.len - 1)>>

push_captures(ms, whole, s, e) ==
  LET nlevels == IF ms.capture = << >> /\ whole THEN 1 ELSE Len(ms.capture)
      pushed == SubSeq([i \in 1..nlevels |-> push_onecapture(ms, i, s, e)], 1, nlevels)
  IN  IF Err \in ToSet(pushed) THEN <<Err>> ELSE pushed

MatchState(src, pat) == [src |-> src, pat |-> pat, capture |-> << >>, err |-> FALSE]

Anchored(pat) == At(pat, 1) = CARET
Unanchored(pat) == IF Anchored(pat) THEN Tail(pat) ELSE pat

(***************************************************************************)
(* The search loop of str_find_aux and of gmatch_aux: the first place from *)
(* s1 on where the pattern matches, [at, r]; r.s is 0 if there is none.    *)
(***************************************************************************)
RECURSIVE Search(_, _, _)
Search(ms, s1, anchor) ==
  LET r == match(ms, s1, 1)
  IN  IF r.s # 0 \/ r.ms.err \/ s1 >= src_end(ms) \/ anchor
      THEN [at |-> s1, r |-> r]
      ELSE Search([r.ms EXCEPT !.capture = << >>], s1 + 1, anchor)

str_find_aux(src, pat, init, find, plain) ==
  LET from == posrelat(init, Len(src))
      s1 == IF from < 1 THEN 1 ELSE IF from > Len(src) THEN Len(src) + 1 ELSE from
      s2 == lmemfind(src, s1, pat)
      f == Search(MatchState(src, Unanchored(pat)), s1, Anchored(pat))
      caps == push_captures(f.r.ms, ~find, f.at, f.r.s)
  IN  IF find /\ (plain \/ ToSet(pat) \cap SPECIALS = {})
      THEN IF s2 = 0 THEN << >>
           ELSE <<<<"pos", s2>>, <<"pos", s2 + Len(pat) - 1>>>>
      ELSE IF f.r.ms.err THEN <<Err>>
      ELSE IF f.r.s = 0 THEN << >>
      ELSE IF caps = <<Err>> THEN caps
      ELSE IF find THEN <<<<"pos", f.at>>, <<"pos", f.r.s - 1>>>> \o caps
      ELSE caps

NewStart(at, e) == IF e = at THEN e + 1 ELSE e

(***************************************************************************)
(* What the iterator of gmatch gives from src on, called until it answers  *)
(* nil; gmatch knows no anchor.                                            *)
(***************************************************************************)
RECURSIVE gmatch_aux(_, _, _)
gmatch_aux(str, pat, src) ==
  LET f == Search(MatchState(str, pat), src, FALSE)
      caps == push_captures(f.r.ms, TRUE, f.at, f.r.s)
  IN  IF src > Len(str) + 1 THEN << >>
      ELSE IF f.r.ms.err THEN <<<<Err>>>>
      ELSE IF f.r.s = 0 THEN << >>
      ELSE IF caps = <<Err>> THEN <<caps>>
      ELSE <<caps>> \o gmatch_aux(str, pat, NewStart(f.at, f.r.s))

(***************************************************************************)
(* gsub.  A replacement is a string in which %n stands for a capture, or a *)
(* table (or a function) that gives a string, or nothing, for the captures *)
(* it is asked for.  luaL_addvalue turns a number into its digits; the     *)
(* strings here are shorter than 10.                                       *)
(***************************************************************************)
Text(value) == IF value[1] = "pos" THEN <<48 + value[2]>> ELSE value[2]

RECURSIVE add_s(_, _, _, _)
add_s(ms, news, s, e) ==
  LET c == At(news, 2)
      v == IF c = 48 THEN <<"str", SubSeq(ms.src, s, e - 1)>>
           ELSE push_onecapture(ms, c - 48, s, e)
      skip == IF news[1] = L_ESC THEN 2 ELSE 1
      rest == add_s(ms, SubSeq(news, skip + 1, Len(news)), s, e)
      first == CASE skip = 1 -> <<news[1]>>
                 [] skip = 2 /\ c \notin Digit -> <<c>>
                 [] OTHER -> Text(v)
  IN  IF news = << >> THEN <<"str", << >>>>
      ELSE IF skip = 2 /\ c \in Digit /\ v = Err THEN Err
      ELSE IF rest = Err THEN Err
      ELSE <<"str", first \o rest[2]>>

add_value(ms, repl, s, e) ==
  LET key == IF repl.kind = "table" THEN <<push_onecapture(ms, 1, s, e)>>
             ELSE push_captures(ms, TRUE, s, e)
  IN  IF repl.kind = "string" THEN add_s(ms, repl.news, s, e)
      ELSE IF key = <<Err>> THEN Err
      ELSE IF key \in DOMAIN repl.gives THEN <<"str", repl.gives[key]>>
      ELSE <<"str", SubSeq(ms.src, s, e - 1)>>

RECURSIVE GsubLoop(_, _, _, _, _, _, _)
GsubLoop(ms, src, b, n, repl, max_s, anchor) ==
  LET r == match(ms, src, 1)
      added == IF r.s = 0 THEN <<"str", << >>>> ELSE add_value(r.ms, repl, src, r.s)
      b1 == b \o added[2]
      n1 == IF r.s = 0 THEN n ELSE n + 1
      again == [r.ms EXCEPT !.capture = << >>]
      rest(from) == SubSeq(ms.src, from, Len(ms.src))
      one == Append(b1, ms.src[src])
  IN  IF n >= max_s THEN <<b \o rest(src), n>>
      ELSE IF r.ms.err \/ added = Err THEN Err
      ELSE IF r.s > src
      THEN IF anchor THEN <<b1 \o rest(r.s), n1>>
           ELSE GsubLoop(again, r.s, b1, n1, repl, max_s, anchor)
      ELSE IF src >= src_end(ms) THEN <<b1, n1>>
      ELSE IF anchor THEN <<one \o rest(src + 1), n1>>
      ELSE GsubLoop(again, src + 1, one, n1, repl, max_s, anchor)

str_gsub(src, pat, repl, max_s) ==
  GsubLoop(MatchState(src, Unanchored(pat)), 1, << >>, 0, repl, max_s, Anchored(pat))
=============================================================================
